---- MODULE Spec2Model ----
(***************************************************************************)
(* Tenant-scoped authorization, membership and audit of the spiritual     *)
(* gifts backend: the request guards of app/neon_auth.py, the handlers of *)
(* app/routers/organizations.py, app/routers/admin.py and                 *)
(* app/routers/audit.py, the entitlement table of                         *)
(* app/services/entitlements.py and the audit emitter of                  *)
(* app/services/audit_service.py, over a relational store of users,       *)
(* organizations and audit rows.                                           *)
(***************************************************************************)
EXTENDS Integers, FiniteSets, Sequences, TLC

VARIABLES users, orgs, auditLogs, logEntries, resp, redis, inflight, boot

vars == <<users, orgs, auditLogs, logEntries, resp, redis, inflight, boot>>

(***************************************************************************)
(* Bounds of the model.                                                    *)
(***************************************************************************)
\* number of further members of the quota scenario's organization
NumBackground == 9

(***************************************************************************)
(* Values.                                                                 *)
(***************************************************************************)
NoOrg == "null"
NoUser == "null"
NoValue == "unset"

OperatorEmail == "tonym415@gmail.com"
LegacySlug == "neon-evangelion"
DemoSlug == "grace-community"

Roles == {"user", "admin", "super_admin"}
Statuses == {"pending", "active"}
Methods == {"GET", "HEAD", "OPTIONS", "POST", "PUT", "PATCH", "DELETE"}

OrgIds == {"o1", "o2", "o3", "o4", "o5"}

\* the database as one value: the four tables a session reads and writes
DB == [users |-> users, orgs |-> orgs, auditLogs |-> auditLogs, logEntries |-> logEntries]

(***************************************************************************)
(* app/services/entitlements.py                                            *)
(***************************************************************************)
Finite(n) == [inf |-> FALSE, n |-> n]
Infinite == [inf |-> TRUE, n |-> 0]

PlanValues == {"free", "individual", "ministry", "church"}

\* str.lower() on the plan names that occur
Lower(s) ==
    CASE s = "FREE" -> "free"
      [] s = "Free" -> "free"
      [] s = "Individual" -> "individual"
      [] s = "Ministry" -> "ministry"
      [] s = "MINISTRY" -> "ministry"
      [] s = "CHURCH" -> "church"
      [] s = "Starter" -> "starter"
      [] s = "ENTERPRISE" -> "enterprise"
      [] OTHER -> s

\* an available_themes value: a list of theme ids or the string "all"
ThemeList(ids) == [all |-> FALSE, ids |-> ids]
THEMES_FREE == ThemeList({"light", "dark", "synthwave"})
THEMES_INDIVIDUAL == ThemeList(THEMES_FREE.ids \cup {"ocean", "forest", "sunset"})
THEMES_MINISTRY ==
    ThemeList(THEMES_INDIVIDUAL.ids \cup {"midnight", "glacier", "autumn", "minimal"})
THEMES_CHURCH == [all |-> TRUE, ids |-> {}]

TIER_FEATURES ==
    [free |-> [users |-> Finite(10), admins |-> Finite(0),
               assessments_per_month |-> Finite(20), history_days |-> Finite(30),
               exports |-> FALSE, org_support |-> FALSE, custom_weighting |-> FALSE,
               support_level |-> "none", available_themes |-> THEMES_FREE,
               theme_analytics |-> FALSE, custom_org_theming |-> FALSE],
     individual |-> [users |-> Finite(50), admins |-> Finite(1),
               assessments_per_month |-> Finite(100), history_days |-> Finite(90),
               exports |-> FALSE, org_support |-> FALSE, custom_weighting |-> FALSE,
               support_level |-> "email", available_themes |-> THEMES_INDIVIDUAL,
               theme_analytics |-> FALSE, custom_org_theming |-> FALSE],
     ministry |-> [users |-> Finite(100), admins |-> Finite(5),
               assessments_per_month |-> Finite(500), history_days |-> Finite(365),
               exports |-> TRUE, org_support |-> TRUE, custom_weighting |-> FALSE,
               support_level |-> "priority", available_themes |-> THEMES_MINISTRY,
               theme_analytics |-> TRUE, custom_org_theming |-> FALSE],
     church |-> [users |-> Infinite, admins |-> Infinite,
               assessments_per_month |-> Infinite, history_days |-> Infinite,
               exports |-> TRUE, org_support |-> TRUE, custom_weighting |-> TRUE,
               support_level |-> "priority", available_themes |-> THEMES_CHURCH,
               theme_analytics |-> TRUE, custom_org_theming |-> TRUE]]

\* the exception a call ends with in place of a value
Raised(exc) == [raised |-> exc]
IsRaised(v) == DOMAIN v = {"raised"}

\* NoValue is None: None has no lower(), and only ValueError is caught
get_plan_features(plan_name) ==
    IF plan_name = NoValue THEN Raised("AttributeError")
    ELSE IF Lower(plan_name) \in PlanValues
    THEN TIER_FEATURES[Lower(plan_name)]
    ELSE TIER_FEATURES["free"]

\* features.get(feature, 0)
resolve_limit(plan_name, feature) ==
    LET features == get_plan_features(plan_name)
    IN  IF IsRaised(features) THEN features
        ELSE IF feature \in DOMAIN features THEN features[feature]
        ELSE Finite(0)

\* count >= limit, count > limit and limit - count over int and float('inf')
AtLeastOffByOne(count, limit) == IF limit.inf THEN FALSE ELSE count > limit.n
AtLeast(count, limit) == IF limit.inf THEN FALSE ELSE count >= limit.n
ExceedsOffByOne(count, limit) == IF limit.inf THEN FALSE ELSE count >= limit.n
Exceeds(count, limit) == IF limit.inf THEN FALSE ELSE count > limit.n
Minus(limit, count) == IF limit.inf THEN Infinite ELSE Finite(limit.n - count)

(***************************************************************************)
(* app/database.py and the SQLAlchemy session: a session works on its own *)
(* view of the tables, commit() publishes the view, close() drops what   *)
(* was not committed.                                                      *)
(***************************************************************************)
\* staged counts the audit rows added since the last commit, written those that
\* a commit published, commits the calls of commit()
SessionLocal(db) == [db |-> db, work |-> db, staged |-> 0, written |-> 0, commits |-> 0]
commit(s) ==
    [db |-> s.work, work |-> s.work, staged |-> 0,
     written |-> s.written + s.staged, commits |-> s.commits + 1]
close(s) == s.db

\* db.query(User).filter(User.id == user_id).first()
UserExists(s, uid) == uid \in DOMAIN s.work.users
\* db.query(Organization).filter(Organization.slug == slug).first()
OrgBySlug(s, slug) ==
    IF \E o \in DOMAIN s.work.orgs : s.work.orgs[o].slug = slug
    THEN CHOOSE o \in DOMAIN s.work.orgs : s.work.orgs[o].slug = slug
    ELSE NoOrg

\* attribute assignments on a loaded row
SetUser(s, uid, org_id, role, status) ==
    [s EXCEPT !.work.users[uid] =
        [@ EXCEPT !.org_id = org_id, !.role = role, !.membership_status = status]]

(***************************************************************************)
(* app/services/audit_service.py                                           *)
(***************************************************************************)
AuditRow(s, actor, action, target_type, target_id) ==
    [actor_id |-> actor, org_id |-> s.work.users[actor].org_id,
     action |-> action, resource |-> target_type \o ":" \o target_id]

LogRow(s, actor, action) ==
    [user_id |-> actor, org_id |-> s.work.users[actor].org_id, event |-> action]

\* variant: the emitter commits the rows it adds
log_action_committing(s, actor, action, target_type, target_id) ==
    commit([s EXCEPT !.work.auditLogs = @ \cup {AuditRow(s, actor, action, target_type, target_id)},
                     !.work.logEntries = @ \cup {LogRow(s, actor, action)},
                     !.staged = @ + 1])

\* the two db.add() calls, for details that jsonable_encoder accepts
log_action(s, actor, action, target_type, target_id) ==
    [s EXCEPT !.work.auditLogs = @ \cup {AuditRow(s, actor, action, target_type, target_id)},
              !.work.logEntries = @ \cup {LogRow(s, actor, action)},
              !.staged = @ + 1]

\* a details payload: None, {}, a dict of JSON values, or a dict holding a
\* value that jsonable_encoder cannot encode
DetailKinds == {NoValue, "empty", "plain", "unserialisable"}

\* fastapi.encoders.jsonable_encoder raises ValueError for such a value
jsonable_encoder(details) ==
    IF details = "unserialisable" THEN Raised("ValueError") ELSE [encoded |-> details]

\* AuditService.log_action with its details argument: the row it returns,
\* or the exception of line 18, which nothing catches
log_action_details(s, actor, action, target_type, target_id, details) ==
    LET safe_details == IF details \in {NoValue, "empty"} THEN [encoded |-> "empty"]
                        ELSE jsonable_encoder(details)
    IN  IF IsRaised(safe_details)
        THEN [raised |-> TRUE, session |-> s, audit |-> safe_details]
        ELSE [raised |-> FALSE,
              session |-> log_action(s, actor, action, target_type, target_id),
              audit |-> AuditRow(s, actor, action, target_type, target_id)]

(***************************************************************************)
(* app/neon_auth.py: the guards.  A guard returns ok with its value or   *)
(* the status and detail of the HTTPException it raises.                  *)
(***************************************************************************)
NoContext == [user |-> NoUser, organization |-> NoOrg, role |-> "", permissions |-> <<>>]

\* a response detail: the message and, by name, the values formatted into it
Msg(text) == [text |-> text, args |-> [none |-> TRUE]]
MsgArgs(text, args) == [text |-> text, args |-> args]

Pass(ctx) == [ok |-> TRUE, status |-> 200, detail |-> Msg(""), ctx |-> ctx]
Raise(status, text) == [ok |-> FALSE, status |-> status, detail |-> Msg(text), ctx |-> NoContext]

\* variant: PUT is taken for a safe method
get_user_context_put_safe(db, uid, method) ==
    LET user == db.users[uid]
        org == user.org_id
    IN  IF org # NoOrg /\ db.orgs[org].is_demo /\ method \notin {"GET", "HEAD", "OPTIONS", "PUT"}
        THEN Raise(403, "This is a demo organization. Write actions are disabled.")
        ELSE Pass([user |-> uid, organization |-> org, role |-> user.role,
                   permissions |-> <<>>])

get_user_context(db, uid, method) ==
    LET user == db.users[uid]
        org == user.org_id
    IN  IF org # NoOrg /\ db.orgs[org].is_demo /\ method \notin {"GET", "HEAD", "OPTIONS"}
        THEN Raise(403, "This is a demo organization. Write actions are disabled.")
        ELSE Pass([user |-> uid, organization |-> org, role |-> user.role,
                   permissions |-> <<>>])

\* variant: the membership is checked before the organization's is_active
require_org_membership_first(db, c) ==
    IF ~c.ok THEN c
    ELSE IF c.ctx.organization = NoOrg
         THEN Raise(403, "Organization membership required")
    ELSE IF db.users[c.ctx.user].membership_status # "active"
         THEN Raise(403, "Organization membership is pending approval")
    ELSE IF ~db.orgs[c.ctx.organization].is_active
         THEN Raise(403, "Organization is inactive")
    ELSE c

require_org(db, c) ==
    IF ~c.ok THEN c
    ELSE IF c.ctx.organization = NoOrg
         THEN Raise(403, "Organization membership required")
    ELSE IF ~db.orgs[c.ctx.organization].is_active
         THEN Raise(403, "Organization is inactive")
    ELSE IF db.users[c.ctx.user].membership_status # "active"
         THEN Raise(403, "Organization membership is pending approval")
    ELSE c

\* variant: the allowlists are consulted before the role
get_current_admin_allowlist_first(db, c) ==
    IF ~c.ok THEN c
    ELSE LET user == db.users[c.ctx.user]
             is_super_admin ==
                 \/ user.email \in {OperatorEmail}
                 \/ /\ user.org_id # NoOrg
                    /\ db.orgs[user.org_id].slug \in {LegacySlug}
         IN  IF is_super_admin THEN c
             ELSE IF user.role # "admin"
             THEN Raise(403, "Administrative privileges required")
             ELSE Raise(403, "System Administrator privileges required")

get_current_admin(db, c) ==
    IF ~c.ok THEN c
    ELSE LET user == db.users[c.ctx.user]
             is_super_admin ==
                 \/ user.email \in {OperatorEmail}
                 \/ /\ user.org_id # NoOrg
                    /\ db.orgs[user.org_id].slug \in {LegacySlug}
         IN  IF user.role # "admin"
             THEN Raise(403, "Administrative privileges required")
             ELSE IF ~is_super_admin
             THEN Raise(403, "System Administrator privileges required")
             ELSE c

\* variant: role and organization are required of every caller
get_org_admin_no_allowlist(db, c) ==
    IF ~c.ok THEN c
    ELSE IF db.users[c.ctx.user].role # "admin"
         THEN Raise(403, "Administrative privileges required")
    ELSE IF c.ctx.organization = NoOrg
         THEN Raise(403, "Organization membership required for admin access")
    ELSE c

get_org_admin(db, c) ==
    IF ~c.ok THEN c
    ELSE LET user == db.users[c.ctx.user]
             is_super_admin ==
                 \/ user.email \in {OperatorEmail}
                 \/ /\ user.org_id # NoOrg
                    /\ db.orgs[user.org_id].slug \in {LegacySlug}
         IN  IF is_super_admin THEN c
             ELSE IF user.role # "admin"
             THEN Raise(403, "Administrative privileges required")
             ELSE IF c.ctx.organization = NoOrg
             THEN Raise(403, "Organization membership required for admin access")
             ELSE c

(***************************************************************************)
(* What a handler returns: the response, the rows it lists and the        *)
(* database once get_db has closed the session.                            *)
(***************************************************************************)
Reply(status, detail, s) ==
    [status |-> status, detail |-> detail, db |-> close(s), rows |-> {},
     commits |-> s.commits, written |-> s.written, lost |-> s.staged]
Listing(rows, s) == [Reply(200, Msg(""), s) EXCEPT !.rows = rows]
Denied(g, s) == Reply(g.status, g.detail, s)

\* a caller of the emitter: it opens a session, emits, and commits or not
\* before get_db closes the session
emit(db, actor, action, target_type, target_id, details, then_commit) ==
    LET s0 == SessionLocal(db)
        r == log_action_details(s0, actor, action, target_type, target_id, details)
    IN  IF r.raised
        THEN [Reply(500, Msg("Internal Server Error"), s0) EXCEPT !.rows = {r.audit}]
        ELSE IF then_commit THEN Listing({r.audit}, commit(r.session))
        ELSE Listing({r.audit}, r.session)

\* variant: the lookup by id alone
InAnyOrg(s, uid, org) == UserExists(s, uid)
\* db.query(User).filter(User.id == user_id, User.org_id == org.id).first()
InOrg(s, uid, org) == UserExists(s, uid) /\ s.work.users[uid].org_id = org

Members(s, org) == {u \in DOMAIN s.work.users : s.work.users[u].org_id = org}
ActiveMembers(s, org) ==
    {u \in Members(s, org) : s.work.users[u].membership_status = "active"}

(***************************************************************************)
(* app/routers/organizations.py                                            *)
(***************************************************************************)
\* the columns name and branding of an organization are not part of the row
NewOrg(slug) ==
    [slug |-> slug, plan |-> "free", is_active |-> TRUE, is_demo |-> FALSE,
     stripe_customer_id |-> NoValue]

AddOrg(s, o, org) ==
    [s EXCEPT !.work.orgs = [x \in DOMAIN @ \cup {o} |-> IF x = o THEN org ELSE @[x]]]

\* the id (uuid4) of a new row
FreshOrgId(s) == "o4"

create_organization(db, uid, slug) ==
    LET c == get_user_context(db, uid, "POST")
        s0 == SessionLocal(db)
        o == FreshOrgId(s0)
        s1 == AddOrg(s0, o, NewOrg(slug))
        s2 == SetUser(s1, uid, o, "admin", "active")
        s3 == commit(s2)
        s4 == log_action(s3, uid, "create_org", "organization", o)
    IN  IF ~c.ok THEN Denied(c, s0)
        ELSE IF OrgBySlug(s0, slug) # NoOrg
        THEN Reply(409, MsgArgs("Organization with slug already exists", [slug |-> slug]), s0)
        ELSE Reply(201, Msg("created"), s4)

update_my_organization(db, uid) ==
    LET c == get_user_context(db, uid, "PATCH")
        g == require_org(db, c)
        s0 == SessionLocal(db)
        org == c.ctx.organization
        s2 == commit(s0)
        s3 == log_action(s2, uid, "update_org", "organization", org)
    IN  IF ~g.ok THEN Denied(g, s0)
        ELSE IF db.users[uid].role # "admin"
        THEN Reply(403, Msg("Only organization admins can update organization details"), s0)
        ELSE Reply(200, Msg("updated"), s3)

list_organization_members(db, uid) ==
    LET c == get_user_context(db, uid, "GET")
        g == require_org(db, c)
        s0 == SessionLocal(db)
    IN  IF ~g.ok THEN Denied(g, s0)
        ELSE Listing(Members(s0, c.ctx.organization), s0)

get_organization_analytics(db, uid) ==
    LET c == get_user_context(db, uid, "GET")
        g == require_org(db, c)
        s0 == SessionLocal(db)
    IN  IF ~g.ok THEN Denied(g, s0)
        ELSE Listing({c.ctx.organization}, s0)

UserByEmail(s, email) ==
    IF \E u \in DOMAIN s.work.users : s.work.users[u].email = email
    THEN CHOOSE u \in DOMAIN s.work.users : s.work.users[u].email = email
    ELSE NoUser

invite_member(db, uid, email) ==
    LET c == get_user_context(db, uid, "POST")
        g == require_org(db, c)
        s0 == SessionLocal(db)
        org == c.ctx.organization
        max_users == get_plan_features(db.orgs[org].plan).users
        current_member_count == Cardinality(Members(s0, org))
        existing_user == UserByEmail(s0, email)
        s1 == log_action(s0, uid, "invite_member", "organization", org)
    IN  IF ~g.ok THEN Denied(g, s0)
        ELSE IF db.users[uid].role # "admin"
        THEN Reply(403, Msg("Only organization admins can invite members"), s0)
        ELSE IF AtLeast(current_member_count, max_users)
        THEN Reply(403, MsgArgs("Your plan is limited to members. Please upgrade to invite more.",
                                [plan |-> db.orgs[org].plan, max_users |-> max_users]), s0)
        ELSE IF existing_user # NoUser
        THEN IF db.users[existing_user].org_id = org
             THEN Reply(409, Msg("User is already a member of this organization"), s0)
             ELSE Reply(409, Msg("User is already a member of another organization"), s0)
        ELSE Reply(202, MsgArgs("Invitation sent", [email |-> email]), s1)

join_organization(db, uid, slug) ==
    LET c == get_user_context(db, uid, "POST")
        s0 == SessionLocal(db)
        org == OrgBySlug(s0, Lower(slug))
        s1 == SetUser(s0, uid, org, "user", "pending")
        s2 == commit(s1)
        s3 == log_action(s2, uid, "join_request", "organization", org)
    IN  IF ~c.ok THEN Denied(c, s0)
        ELSE IF db.users[uid].org_id # NoOrg
        THEN Reply(400, Msg("You are already associated with an organization"), s0)
        ELSE IF org = NoOrg
        THEN Reply(404, MsgArgs("Organization with slug not found", [slug |-> slug]), s0)
        ELSE Reply(202, Msg("Join request sent"), s3)

approve_member(db, uid, user_id) ==
    LET c == get_user_context(db, uid, "POST")
        g == require_org(db, c)
        s0 == SessionLocal(db)
        org == c.ctx.organization
        max_users == get_plan_features(db.orgs[org].plan).users
        current_member_count == Cardinality(ActiveMembers(s0, org))
        s1 == [s0 EXCEPT !.work.users[user_id].membership_status = "active"]
        s2 == commit(s1)
        s3 == log_action(s2, uid, "approve_member", "user", user_id)
    IN  IF ~g.ok THEN Denied(g, s0)
        ELSE IF db.users[uid].role # "admin"
        THEN Reply(403, Msg("Only admins can approve members"), s0)
        ELSE IF ~InOrg(s0, user_id, org)
        THEN Reply(404, Msg("User not found in this organization"), s0)
        ELSE IF db.users[user_id].membership_status = "active"
        THEN Reply(200, Msg("User is already active"), s0)
        ELSE IF AtLeast(current_member_count, max_users)
        THEN Reply(403, MsgArgs("Tier limit of active members reached. Please upgrade.",
                                [max_users |-> max_users]), s0)
        ELSE Reply(200, MsgArgs("User approved", [email |-> db.users[user_id].email]), s3)

reject_member(db, uid, user_id) ==
    LET c == get_user_context(db, uid, "POST")
        g == require_org(db, c)
        s0 == SessionLocal(db)
        org == c.ctx.organization
        s1 == SetUser(s0, user_id, NoOrg, "user", "active")
        s2 == commit(s1)
        s3 == log_action(s2, uid, "reject_member", "user", user_id)
    IN  IF ~g.ok THEN Denied(g, s0)
        ELSE IF db.users[uid].role # "admin"
        THEN Reply(403, Msg("Only admins can manage members"), s0)
        ELSE IF ~InOrg(s0, user_id, org)
        THEN Reply(404, Msg("User not found in this organization"), s0)
        ELSE IF user_id = uid
        THEN Reply(400, Msg("Cannot reject/remove yourself"), s0)
        ELSE Reply(200, MsgArgs("User removed/rejected", [email |-> db.users[user_id].email]), s3)

get_member_assessments(db, uid, member_id) ==
    LET c == get_user_context(db, uid, "GET")
        g == require_org(db, c)
        s0 == SessionLocal(db)
        org == c.ctx.organization
    IN  IF ~g.ok THEN Denied(g, s0)
        ELSE IF db.users[uid].role # "admin"
        THEN Reply(403, Msg("Only organization admins can view member assessments"), s0)
        ELSE IF ~InOrg(s0, member_id, org)
        THEN Reply(404, Msg("Member not found in this organization"), s0)
        ELSE Listing({member_id}, s0)

update_organization_member(db, uid, user_id, role) ==
    LET c == get_user_context(db, uid, "PATCH")
        g == require_org(db, c)
        s0 == SessionLocal(db)
        org == c.ctx.organization
        s1 == IF role # NoValue THEN [s0 EXCEPT !.work.users[user_id].role = role] ELSE s0
        s2 == commit(s1)
        s3 == log_action(s2, uid, "member_updated_by_org_admin", "user", user_id)
    IN  IF ~g.ok THEN Denied(g, s0)
        ELSE IF db.users[uid].role # "admin"
        THEN Reply(403, Msg("Only organization admins can update members"), s0)
        ELSE IF ~InOrg(s0, user_id, org)
        THEN Reply(404, Msg("Member not found in your organization"), s0)
        ELSE Reply(200, MsgArgs("member", [id |-> user_id]), s3)

RECURSIVE ApproveEach(_, _, _)
ApproveEach(s, uid, todo) ==
    IF todo = {} THEN s
    ELSE LET u == CHOOSE x \in todo : TRUE
             s1 == [s EXCEPT !.work.users[u].membership_status = "active"]
             s2 == log_action(s1, uid, "approve_member", "user", u)
         IN  ApproveEach(s2, uid, todo \ {u})

bulk_approve_members(db, uid, user_ids) ==
    LET c == get_user_context(db, uid, "POST")
        g == require_org(db, c)
        s0 == SessionLocal(db)
        org == c.ctx.organization
        max_users == get_plan_features(db.orgs[org].plan).users
        current_active_count == Cardinality(ActiveMembers(s0, org))
        available_slots == Minus(max_users, current_active_count)
        found == {u \in user_ids : InOrg(s0, u, org)
                                    /\ db.users[u].membership_status = "pending"}
        s1 == ApproveEach(s0, uid, found)
        s2 == commit(s1)
    IN  IF ~g.ok THEN Denied(g, s0)
        ELSE IF db.users[uid].role # "admin"
        THEN Reply(403, Msg("Only admins can approve members"), s0)
        ELSE IF found = {}
        THEN Reply(200, MsgArgs("No pending members found to approve", [approved_count |-> 0]), s0)
        ELSE IF Exceeds(Cardinality(found), available_slots)
        THEN Reply(403, MsgArgs("Tier limit reached. You only have slots available, but tried to approve users.",
                                [available_slots |-> available_slots,
                                 users |-> Cardinality(found)]), s0)
        ELSE Reply(200, MsgArgs("Successfully approved members", [approved_count |-> Cardinality(found)]), s2)

RECURSIVE RejectEach(_, _, _)
RejectEach(s, uid, todo) ==
    IF todo = {} THEN s
    ELSE LET u == CHOOSE x \in todo : TRUE
             s1 == SetUser(s, u, NoOrg, "user", "active")
             s2 == log_action(s1, uid, "reject_member", "user", u)
         IN  IF u = uid
             THEN RejectEach(s, uid, todo \ {u})
             ELSE RejectEach(s2, uid, todo \ {u})

bulk_reject_members(db, uid, user_ids) ==
    LET c == get_user_context(db, uid, "POST")
        g == require_org(db, c)
        s0 == SessionLocal(db)
        org == c.ctx.organization
        found == {u \in user_ids : InOrg(s0, u, org)}
        s1 == RejectEach(s0, uid, found)
        s2 == commit(s1)
    IN  IF ~g.ok THEN Denied(g, s0)
        ELSE IF db.users[uid].role # "admin"
        THEN Reply(403, Msg("Only admins can manage members"), s0)
        ELSE Reply(200, MsgArgs("Successfully removed/rejected members",
                                [rejected_count |-> Cardinality(found \ {uid})]), s2)

(***************************************************************************)
(* app/routers/admin.py                                                    *)
(***************************************************************************)
\* the fallback of get_system_logs and list_all_users for the legacy tenant
SeesAllTenants(db, uid) ==
    \/ db.users[uid].role = "super_admin"
    \/ /\ db.users[uid].org_id # NoOrg
       /\ db.orgs[db.users[uid].org_id].slug \in {LegacySlug}

get_system_logs(db, uid) ==
    LET c == get_user_context(db, uid, "GET")
        g == get_org_admin(db, c)
        s0 == SessionLocal(db)
        is_super_admin == SeesAllTenants(db, uid)
        rows == IF ~is_super_admin /\ c.ctx.organization # NoOrg
                THEN {r \in db.logEntries : r.org_id = c.ctx.organization}
                ELSE db.logEntries
    IN  IF ~g.ok THEN Denied(g, s0)
        ELSE Listing(rows, s0)

list_all_users(db, uid, org_id) ==
    LET c == get_user_context(db, uid, "GET")
        g == get_org_admin(db, c)
        s0 == SessionLocal(db)
        is_super_admin == SeesAllTenants(db, uid)
        scoped == IF ~is_super_admin /\ c.ctx.organization # NoOrg
                  THEN {u \in DOMAIN db.users : db.users[u].org_id = c.ctx.organization}
                  ELSE DOMAIN db.users
        rows == IF org_id # NoValue /\ is_super_admin
                THEN {u \in scoped : db.users[u].org_id = org_id}
                ELSE scoped
    IN  IF ~g.ok THEN Denied(g, s0)
        ELSE Listing(rows, s0)

update_user(db, uid, user_id, role, org_id, status) ==
    LET c == get_user_context(db, uid, "PATCH")
        g == get_current_admin(db, c)
        s0 == SessionLocal(db)
        s1 == IF role # NoValue THEN [s0 EXCEPT !.work.users[user_id].role = role] ELSE s0
        s2 == IF org_id # NoValue THEN [s1 EXCEPT !.work.users[user_id].org_id = org_id] ELSE s1
        s3 == IF status # NoValue
              THEN [s2 EXCEPT !.work.users[user_id].membership_status = status] ELSE s2
        s4 == commit(s3)
        s5 == log_action(s4, uid, "user_updated_by_admin", "user", user_id)
    IN  IF ~g.ok THEN Denied(g, s0)
        ELSE IF ~UserExists(s0, user_id)
        THEN Reply(404, Msg("User not found"), s0)
        ELSE IF org_id # NoValue /\ org_id \notin DOMAIN db.orgs
        THEN Reply(404, Msg("Organization not found"), s1)
        ELSE Reply(200, MsgArgs("user", [id |-> user_id]), s5)

get_organization_details(db, uid, org_id) ==
    LET c == get_user_context(db, uid, "GET")
        g == get_current_admin(db, c)
        s0 == SessionLocal(db)
        org == db.orgs[org_id]
    IN  IF ~g.ok THEN Denied(g, s0)
        ELSE IF org_id \notin DOMAIN db.orgs
        THEN Reply(404, Msg("Organization not found"), s0)
        ELSE Listing({[id |-> org_id, slug |-> org.slug, plan |-> org.plan,
                       is_active |-> org.is_active, is_demo |-> org.is_demo,
                       member_count |-> Cardinality(Members(s0, org_id))]}, s0)

admin_create_organization(db, uid, slug) ==
    LET c == get_user_context(db, uid, "POST")
        g == get_current_admin(db, c)
        s0 == SessionLocal(db)
        o == FreshOrgId(s0)
        s1 == AddOrg(s0, o, NewOrg(slug))
        s2 == commit(s1)
        s3 == log_action(s2, uid, "admin_create_org", "organization", o)
    IN  IF ~g.ok THEN Denied(g, s0)
        ELSE IF OrgBySlug(s0, slug) # NoOrg
        THEN Reply(409, MsgArgs("Organization with slug already exists", [slug |-> slug]), s0)
        ELSE Reply(200, MsgArgs("organization", [id |-> o]), s3)

update_organization(db, uid, org_id) ==
    LET c == get_user_context(db, uid, "PATCH")
        g == get_current_admin(db, c)
        s0 == SessionLocal(db)
        s2 == commit(s0)
        s3 == log_action(s2, uid, "admin_update_org", "organization", org_id)
    IN  IF ~g.ok THEN Denied(g, s0)
        ELSE IF org_id \notin DOMAIN db.orgs
        THEN Reply(404, Msg("Organization not found"), s0)
        ELSE Reply(200, MsgArgs("organization", [id |-> org_id]), s3)

(***************************************************************************)
(* app/routers/audit.py                                                    *)
(***************************************************************************)
\* features.get(FEATURE_AUDIT_LOGS, False)
AuditLogsEntitled(plan_name) == Lower(plan_name) \in {"ministry", "church"}

get_audit_logs(db, uid, org_id) ==
    LET c == get_user_context(db, uid, "GET")
        s0 == SessionLocal(db)
        current_user == db.users[uid]
        is_super_admin ==
            \/ current_user.role = "super_admin"
            \/ /\ current_user.org_id # NoOrg
               /\ db.orgs[current_user.org_id].slug = LegacySlug
        is_admin == current_user.role = "admin"
        query_org_id == IF is_super_admin THEN org_id ELSE current_user.org_id
        rows == IF query_org_id # NoValue
                THEN {r \in db.auditLogs : r.org_id = query_org_id}
                ELSE db.auditLogs
    IN  IF ~c.ok THEN Denied(c, s0)
        ELSE IF ~is_super_admin /\ ~is_admin
        THEN Reply(403, Msg("Only administrators can view audit logs"), s0)
        ELSE IF ~is_super_admin /\ current_user.org_id = NoOrg
        THEN Reply(403, Msg("Must belong to an organization"), s0)
        ELSE IF ~is_super_admin /\ ~AuditLogsEntitled(db.orgs[current_user.org_id].plan)
        THEN Reply(403, MsgArgs("Audit Logs are not available on the plan.",
                                [plan |-> db.orgs[current_user.org_id].plan]), s0)
        ELSE IF ~is_super_admin /\ org_id # NoValue /\ org_id # current_user.org_id
        THEN Reply(403, Msg("Cannot view logs for other organizations"), s0)
        ELSE Listing(rows, s0)

\* app/neon_auth.py get_current_user: any endpoint that only needs the caller
get_current_user(db, uid, method) ==
    LET c == get_user_context(db, uid, method)
        s0 == SessionLocal(db)
    IN  IF ~c.ok THEN Denied(c, s0)
        ELSE Listing({c.ctx}, s0)

\* both admin guards applied to the Context of one request
admin_guards(db, uid, method) ==
    LET c == get_user_context(db, uid, method)
    IN  Listing({[system_admin |-> get_current_admin(db, c).ok,
                  org_admin |-> get_org_admin(db, c).ok]}, SessionLocal(db))

(***************************************************************************)
(* app/services/auth_service.py: the user a login is for.                 *)
(***************************************************************************)
\* the id of a new row for the address
FreshUserId(s, email) ==
    CHOOSE u \in {"u1", "u2", "a1", "j1", "j2", "s1"} \ DOMAIN s.work.users :
        (IF u \in {"u1", "s1"} THEN OperatorEmail ELSE u) = email

\* User(email=email, role=role, org_id=org_id) with the column defaults
NewUser(email, role, org_id) ==
    [email |-> email, role |-> role, org_id |-> org_id, membership_status |-> "active",
     global_preferences |-> [theme |-> NoValue, sync_across_orgs |-> NoValue],
     org_preferences |-> [theme |-> NoValue, sync_across_orgs |-> NoValue]]

AddUser(s, u, row) ==
    [s EXCEPT !.work.users = [x \in DOMAIN @ \cup {u} |-> IF x = u THEN row ELSE @[x]]]

get_or_create_user(db, email) ==
    LET s0 == SessionLocal(db)
        user == UserByEmail(s0, email)
        role == IF email = OperatorEmail THEN "super_admin" ELSE "user"
        u == FreshUserId(s0, email)
    IN  IF user # NoUser
        THEN IF email = OperatorEmail /\ db.users[user].role # "super_admin"
             THEN Listing({[id |-> user]}, commit([s0 EXCEPT !.work.users[user].role = "super_admin"]))
             ELSE Listing({[id |-> user]}, s0)
        ELSE Listing({[id |-> u]}, commit(AddUser(s0, u, NewUser(email, role, OrgBySlug(s0, DemoSlug)))))

(***************************************************************************)
(* app/main.py: lifespan.  A message is the tuple of its characters;      *)
(* retry_delay is kept in milliseconds, so that *= 1.5 stays a whole      *)
(* number.                                                                 *)
(***************************************************************************)
max_retries == 5
retry_delay == 2000

UpperCase ==
    <<"A", "B", "C", "D", "E", "F", "G", "H", "I", "J", "K", "L", "M", "N",
      "O", "P", "Q", "R", "S", "T", "U", "V", "W", "X", "Y", "Z">>
LowerCase ==
    <<"a", "b", "c", "d", "e", "f", "g", "h", "i", "j", "k", "l", "m", "n",
      "o", "p", "q", "r", "s", "t", "u", "v", "w", "x", "y", "z">>

\* str.lower()
lower(text) ==
    [i \in DOMAIN text |->
        IF \E k \in DOMAIN UpperCase : UpperCase[k] = text[i]
        THEN LowerCase[CHOOSE k \in DOMAIN UpperCase : UpperCase[k] = text[i]]
        ELSE text[i]]

\* keyword in error_msg
Contains(text, keyword) ==
    \E i \in 1..(Len(text) - Len(keyword) + 1) :
        SubSeq(text, i, i + Len(keyword) - 1) = keyword

Keywords ==
    {<<"n", "a", "m", "e", " ", "r", "e", "s", "o", "l", "u", "t", "i", "o",
       "n">>,
     <<"c", "o", "n", "n", "e", "c", "t", "i", "o", "n", " ", "r", "e", "f",
       "u", "s", "e", "d">>,
     <<"n", "e", "t", "w", "o", "r", "k">>,
     <<"d", "n", "s">>}

\* any(keyword in error_msg for keyword in [...]) with error_msg = str(e).lower()
IsConnectionError(e) == \E keyword \in Keywords : Contains(lower(e), keyword)

\* variant: every error is taken for a connection error
attempt_create_all_retry_any(b, outcome) ==
    IF outcome = <<>>
    THEN [b EXCEPT !.state = "healing", !.calls = @ + 1, !.error = <<>>]
    ELSE IF b.attempt < max_retries - 1
         THEN [b EXCEPT !.attempt = @ + 1, !.calls = @ + 1, !.error = outcome,
                        !.retry_delay = (@ * 3) \div 2]
         ELSE [b EXCEPT !.state = "failed", !.calls = @ + 1, !.error = outcome]

\* one pass of the loop body: create_all returned (<<>>) or raised the message
attempt_create_all(b, outcome) ==
    IF outcome = <<>>
    THEN [b EXCEPT !.state = "healing", !.calls = @ + 1, !.error = <<>>]
    ELSE IF IsConnectionError(outcome) /\ b.attempt < max_retries - 1
         THEN [b EXCEPT !.attempt = @ + 1, !.calls = @ + 1, !.error = outcome,
                        !.retry_delay = (@ * 3) \div 2]
         ELSE [b EXCEPT !.state = "failed", !.calls = @ + 1, !.error = outcome]

\* db.query(User).filter(User.email.ilike(email)).first()
UserByEmailILike(s, email) ==
    IF \E u \in DOMAIN s.work.users : Lower(s.work.users[u].email) = Lower(email)
    THEN CHOOSE u \in DOMAIN s.work.users : Lower(s.work.users[u].email) = Lower(email)
    ELSE NoUser

\* the operator's account is given the role super_admin; an exception is logged
startup_self_healing(db, db_up) ==
    LET s0 == SessionLocal(db)
        exact == UserByEmail(s0, OperatorEmail)
        user == IF exact # NoUser THEN exact ELSE UserByEmailILike(s0, OperatorEmail)
    IN  IF ~db_up \/ user = NoUser THEN close(s0)
        ELSE IF db.users[user].role # "super_admin"
        THEN close(commit([s0 EXCEPT !.work.users[user].role = "super_admin"]))
        ELSE close(s0)

(***************************************************************************)
(* app/services/event_store.py: the processed Stripe event ids, kept as   *)
(* Redis keys; `up` says whether get_redis_client() obtained a client.    *)
(***************************************************************************)
KEY_PREFIX == "stripe_event:"
EventKey(event_id) == KEY_PREFIX \o event_id

\* variant: the key is looked up without its prefix
is_event_processed_bare_key(store, up, event_id) ==
    IF ~up THEN FALSE ELSE event_id \in store

\* fail-open: False when no client is obtained
is_event_processed(store, up, event_id) ==
    IF ~up THEN FALSE ELSE EventKey(event_id) \in store

mark_event_processed(store, up, event_id) ==
    IF ~up THEN [marked |-> FALSE, store |-> store]
    ELSE [marked |-> TRUE, store |-> store \cup {EventKey(event_id)}]

(***************************************************************************)
(* app/routers/billing.py.  An event is the record of the fields the      *)
(* handlers read: id, type, customer, metadata org_id and plan, status    *)
(* and the price id of the first subscription item; NoValue is an absent  *)
(* key.  db_up says whether the database answers the handler's queries.   *)
(***************************************************************************)
\* settings.STRIPE_PRICE_STARTER, _GROWTH, _ENTERPRISE as configured
STRIPE_PRICES ==
    [starter |-> "price_starter", growth |-> "price_growth", enterprise |-> "price_enterprise"]

\* price_map.get(price_id): of equal keys in a dict display the last one stays
map_price_to_plan(price_id) ==
    CASE price_id = STRIPE_PRICES.enterprise -> "enterprise"
      [] price_id = STRIPE_PRICES.growth -> "growth"
      [] price_id = STRIPE_PRICES.starter -> "starter"
      [] OTHER -> NoValue

\* db.query(Organization).filter(Organization.stripe_customer_id == customer_id).first()
OrgByCustomer(s, customer_id) ==
    IF \E o \in DOMAIN s.work.orgs : s.work.orgs[o].stripe_customer_id = customer_id
    THEN CHOOSE o \in DOMAIN s.work.orgs : s.work.orgs[o].stripe_customer_id = customer_id
    ELSE NoOrg

SetPlan(s, o, plan) == commit([s EXCEPT !.work.orgs[o].plan = plan])

handle_checkout_completed(s, event, db_up) ==
    LET plan == IF event.plan = NoValue THEN "starter" ELSE event.plan
    IN  IF event.org_id = NoValue THEN s
        ELSE IF ~db_up THEN Raised("OperationalError")
        ELSE IF event.org_id \in DOMAIN s.work.orgs
             THEN commit([s EXCEPT !.work.orgs[event.org_id] =
                             [@ EXCEPT !.stripe_customer_id = event.customer,
                                       !.plan = plan]])
        ELSE s

handle_subscription_updated(s, event, db_up) ==
    LET org == OrgByCustomer(s, event.customer)
        plan == map_price_to_plan(event.price_id)
    IN  IF ~db_up THEN Raised("OperationalError")
        ELSE IF org # NoOrg /\ event.status = "active"
                /\ event.price_id # NoValue /\ plan # NoValue
             THEN SetPlan(s, org, plan)
        ELSE s

handle_subscription_deleted(s, event, db_up) ==
    LET org == OrgByCustomer(s, event.customer)
    IN  IF ~db_up THEN Raised("OperationalError")
        ELSE IF org # NoOrg THEN SetPlan(s, org, "free")
        ELSE s

\* the invoice handlers only write to the process log
handle_invoice(s, event, db_up) == s

HandlerOf(event_type) ==
    CASE event_type = "checkout.session.completed" -> "handle_checkout_completed"
      [] event_type = "customer.subscription.updated" -> "handle_subscription_updated"
      [] event_type = "customer.subscription.deleted" -> "handle_subscription_deleted"
      [] event_type = "invoice.payment_succeeded" -> "handle_invoice_paid"
      [] event_type = "invoice.payment_failed" -> "handle_invoice_failed"
      [] OTHER -> NoValue

\* the if/elif chain on event_type
dispatch(s, event, db_up) ==
    CASE event.type = "checkout.session.completed" -> handle_checkout_completed(s, event, db_up)
      [] event.type = "customer.subscription.updated" -> handle_subscription_updated(s, event, db_up)
      [] event.type = "customer.subscription.deleted" -> handle_subscription_deleted(s, event, db_up)
      [] event.type = "invoice.payment_succeeded" -> handle_invoice(s, event, db_up)
      [] event.type = "invoice.payment_failed" -> handle_invoice(s, event, db_up)
      [] OTHER -> s

\* the handlers that were entered, each with whether it raised
Ran(event, h) ==
    IF HandlerOf(event.type) = NoValue THEN {}
    ELSE {[handler |-> HandlerOf(event.type), raised |-> IsRaised(h)]}

WebhookReply(status, text, event, s, store, ran) ==
    [Reply(status, MsgArgs(text, [event_id |-> event.id]), s) EXCEPT !.rows = ran]
        @@ [store |-> store]

\* sig_header is the stripe-signature header: NoValue when not sent
stripe_webhook(db, store, event, sig_header, up_check, up_mark, db_up) ==
    LET s0 == SessionLocal(db)
        h == dispatch(s0, event, db_up)
        m == mark_event_processed(store, up_mark, event.id)
    IN  IF sig_header = NoValue
        THEN WebhookReply(400, "Missing Stripe signature", event, s0, store, {})
        ELSE IF sig_header = "bad_payload"
        THEN WebhookReply(400, "Invalid payload", event, s0, store, {})
        ELSE IF sig_header # "good"
        THEN WebhookReply(400, "Invalid signature", event, s0, store, {})
        ELSE IF is_event_processed(store, up_check, event.id)
        THEN WebhookReply(200, "already_processed", event, s0, store, {})
        ELSE IF IsRaised(h)
        THEN WebhookReply(500, "Event processing failed", event, s0, store, Ran(event, h))
        ELSE WebhookReply(200, "success", event, h, m.store, Ran(event, h))

(***************************************************************************)
(* app/routers/preferences.py.  A preferences dict is kept by its keys    *)
(* theme and sync_across_orgs, NoValue for a key that is not set;         *)
(* org_preferences is the entry of the organization the request names.    *)
(***************************************************************************)
NoPrefs == [theme |-> NoValue, sync_across_orgs |-> NoValue]

\* {**stored, **preferences.model_dump(exclude_unset=True)}
MergePrefs(stored, sent) ==
    [theme |-> IF sent.theme # NoValue THEN sent.theme ELSE stored.theme,
     sync_across_orgs |-> IF sent.sync_across_orgs # NoValue
                          THEN sent.sync_across_orgs ELSE stored.sync_across_orgs]

get_user_preferences(current_user, org_id) ==
    IF org_id # NoValue /\ current_user.org_preferences # NoPrefs
    THEN MergePrefs(current_user.global_preferences, current_user.org_preferences)
    ELSE current_user.global_preferences

\* variant: the sentinel "all" is read as a list of one theme
ThemeAllowedAllAsList(available_themes, theme) ==
    IF available_themes.all THEN theme = "all" ELSE theme \in available_themes.ids

\* not (available_themes != "all" and theme not in available_themes)
ThemeAllowed(available_themes, theme) ==
    available_themes.all \/ theme \in available_themes.ids

update_user_preferences(db, uid, org_id, preferences) ==
    LET c == get_user_context(db, uid, "PATCH")
        s0 == SessionLocal(db)
        current_user == db.users[uid]
        sync_enabled == current_user.global_preferences.sync_across_orgs # "False"
        available_themes ==
            get_plan_features(db.orgs[current_user.org_id].plan).available_themes
        s1 == IF org_id # NoValue /\ ~sync_enabled
              THEN [s0 EXCEPT !.work.users[uid].org_preferences = MergePrefs(@, preferences)]
              ELSE [s0 EXCEPT !.work.users[uid].global_preferences = MergePrefs(@, preferences)]
        s2 == commit(s1)
    IN  IF ~c.ok THEN Denied(c, s0)
        ELSE IF /\ preferences.theme \notin {NoValue, ""}
                /\ current_user.org_id # NoOrg
                /\ ~ThemeAllowed(available_themes, preferences.theme)
        THEN Reply(403, MsgArgs("Theme not available on your plan. Available themes:",
                                [theme |-> preferences.theme,
                                 available_themes |-> available_themes.ids]), s0)
        ELSE Listing({get_user_preferences(s2.db.users[uid], org_id)}, s2)

\* prefs.get("theme") or global.get("theme") or "default"
ResolvedTheme(user) ==
    IF user.org_preferences.theme \notin {NoValue, ""} THEN user.org_preferences.theme
    ELSE IF user.global_preferences.theme \notin {NoValue, ""}
    THEN user.global_preferences.theme
    ELSE "default"

get_theme_analytics(db, uid) ==
    LET c == get_user_context(db, uid, "GET")
        s0 == SessionLocal(db)
        current_user == db.users[uid]
        org == current_user.org_id
        features == get_plan_features(db.orgs[org].plan)
        members == Members(s0, org)
        theme_counts ==
            {[theme |-> t, count |-> Cardinality({u \in members : ResolvedTheme(db.users[u]) = t})] :
                t \in {ResolvedTheme(db.users[u]) : u \in members}}
    IN  IF ~c.ok THEN Denied(c, s0)
        ELSE IF current_user.role # "admin"
        THEN Reply(403, Msg("Admin access required"), s0)
        ELSE IF org = NoOrg
        THEN Reply(400, Msg("No organization associated with user"), s0)
        ELSE IF ~features.theme_analytics
        THEN Reply(403, Msg("Theme analytics not available on your plan. Upgrade to Ministry or Church tier."), s0)
        ELSE Listing(theme_counts, s0)

(***************************************************************************)
(* app/neon_auth.py: the credential of a request.  A token is kept by     *)
(* what jwt.decode makes of it (state) and by its claims sub and role;    *)
(* NoToken is a header or cookie that is not sent.                         *)
(***************************************************************************)
NoToken == [state |-> "absent", sub |-> NoValue, role |-> NoValue]
Token(state, sub, role) == [state |-> state, sub |-> sub, role |-> role]

\* create_access_token(data={"sub": str(user.id), ...}): the decimal text of each id
IdTexts ==
    [u1 |-> "1", u2 |-> "2", a1 |-> "3", j1 |-> "4", j2 |-> "5", s1 |-> "6", u0 |-> "7"]
str(uid) == IdTexts[uid]
\* int(user_id_str): the id of a decimal text, ValueError for any other text
IsInt(text) == \E u \in DOMAIN IdTexts : IdTexts[u] = text
int(text) == CHOOSE u \in DOMAIN IdTexts : IdTexts[u] = text

\* variant: a token past its exp claim is decoded like a current one
verify_token_ignore_exp(token) ==
    IF token.state \in {"valid", "expired"} THEN Pass(NoContext)
    ELSE Raise(401, "Could not validate credentials")

\* jwt.decode raises JWTError for a bad signature and for an expired token
verify_token(token) ==
    IF token.state = "valid" THEN Pass(NoContext)
    ELSE Raise(401, "Could not validate credentials")

\* variant: the effective role is the role claim of the token
get_user_context_role_claim(db, credentials, cookie, method) ==
    LET token == IF credentials # NoToken THEN credentials ELSE cookie
        c == get_user_context(db, int(token.sub), method)
    IN  IF token.state \in {"absent", "empty"} THEN Raise(401, "Not authenticated")
        ELSE IF ~verify_token(token).ok THEN verify_token(token)
        ELSE IF token.sub = NoValue THEN Raise(401, "Could not validate credentials")
        ELSE IF ~IsInt(token.sub) THEN Raise(401, "Could not validate credentials")
        ELSE IF ~UserExists(SessionLocal(db), int(token.sub)) THEN Raise(401, "User not found")
        ELSE IF ~c.ok THEN c
        ELSE Pass([c.ctx EXCEPT !.role = token.role])

\* get_user_context from the request: the Authorization header, else the
\* access_token cookie; then the token, its sub claim and the user row
get_user_context_request(db, credentials, cookie, method) ==
    LET token == IF credentials # NoToken THEN credentials ELSE cookie
    IN  IF token.state \in {"absent", "empty"} THEN Raise(401, "Not authenticated")
        ELSE IF ~verify_token(token).ok THEN verify_token(token)
        ELSE IF token.sub = NoValue THEN Raise(401, "Could not validate credentials")
        ELSE IF ~IsInt(token.sub) THEN Raise(401, "Could not validate credentials")
        ELSE IF ~UserExists(SessionLocal(db), int(token.sub)) THEN Raise(401, "User not found")
        ELSE get_user_context(db, int(token.sub), method)

\* any endpoint behind get_current_user, asked for with a credential
get_current_user_request(db, credentials, cookie, method) ==
    LET c == get_user_context_request(db, credentials, cookie, method)
        s0 == SessionLocal(db)
    IN  IF ~c.ok THEN Denied(c, s0)
        ELSE Listing({c.ctx}, s0)

\* PATCH /user/preferences asked for with a credential
update_user_preferences_request(db, credentials, cookie, org_id, preferences) ==
    LET c == get_user_context_request(db, credentials, cookie, "PATCH")
        s0 == SessionLocal(db)
    IN  IF ~c.ok THEN Denied(c, s0)
        ELSE update_user_preferences(db, c.ctx.user, org_id, preferences)

(***************************************************************************)
(* The users and organizations of the model. u1 and s1 carry the        *)
(* operator's email; b01, b02, ... are members that never send a request. *)
(***************************************************************************)
ActorIds == {"u1", "u2", "a1", "j1", "j2", "s1"}
\* a1 and s1 are resident admins: no request names them and they found nothing
TargetIds == {"u1", "u2", "j1", "j2"}
MissingUser == "u0"
BackgroundNames ==
    <<"b01", "b02", "b03", "b04", "b05", "b06", "b07", "b08", "b09", "b10", "b11", "b12">>
BackgroundIds == {BackgroundNames[i] : i \in 1..NumBackground}

Email(u) == IF u \in {"u1", "s1"} THEN OperatorEmail ELSE u

OrgRow(slug, plan, is_active, is_demo) ==
    [slug |-> slug, plan |-> plan, is_active |-> is_active, is_demo |-> is_demo,
     stripe_customer_id |-> NoValue]
UserRow(u, role, org_id, status) ==
    [email |-> Email(u), role |-> role, org_id |-> org_id, membership_status |-> status,
     global_preferences |-> NoPrefs, org_preferences |-> NoPrefs]

\* no processed event, no request in flight, the application not started
NoRequest ==
    [pc |-> "idle", op |-> "none", caller |-> NoUser, target |-> NoValue,
     writes |-> {}, audit |-> {}, logs |-> {}, status |-> 0, detail |-> Msg(""),
     ran |-> FALSE]
Workers == {"w1", "w2"}
NoBoot == [state |-> "down", attempt |-> 0, calls |-> 0, retry_delay |-> 0, error |-> <<>>]
Quiet ==
    /\ redis = {}
    /\ inflight = [w \in Workers |-> NoRequest]
    /\ boot = NoBoot

NoResponse ==
    [op |-> "none", method |-> "", caller |-> NoUser, target |-> NoValue,
     status |-> 0, detail |-> Msg(""), rows |-> {},
     commits |-> 0, written |-> 0, lost |-> 0]

(***************************************************************************)
(* Init: every store of two users over a legacy, a demo and an ordinary   *)
(* organization.                                                           *)
(***************************************************************************)
SeedOrgs ==
    [o \in {"o1", "o2", "o3"} |->
        CASE o = "o1" -> OrgRow(LegacySlug, "church", TRUE, FALSE)
          [] o = "o2" -> OrgRow(DemoSlug, "church", TRUE, TRUE)
          [] OTHER -> OrgRow("acme", "ministry", TRUE, FALSE)]

SeedAudit ==
    {[actor_id |-> "u1", org_id |-> o, action |-> "seed", resource |-> "organization:" \o o] :
        o \in {"o1", "o2", "o3", NoOrg}}
SeedLogs ==
    {[user_id |-> "u1", org_id |-> o, event |-> "seed"] : o \in {"o1", "o2", "o3", NoOrg}}

\* the role super_admin is only ever given to the operator's account
UserRows(u) ==
    {UserRow(u, r, o, m) :
        r \in IF Email(u) = OperatorEmail THEN Roles ELSE Roles \ {"super_admin"},
        o \in {"o1", "o2", "o3", NoOrg},
        m \in Statuses}

Init ==
    /\ users \in {f \in [{"u1", "u2"} -> UserRows("u1") \cup UserRows("u2")] :
                    \A u \in {"u1", "u2"} : f[u] \in UserRows(u)}
    /\ \E a \in BOOLEAN : orgs = [SeedOrgs EXCEPT !["o3"].is_active = a]
    /\ auditLogs = SeedAudit
    /\ logEntries = SeedLogs
    /\ resp = NoResponse
    /\ Quiet

(***************************************************************************)
(* InitFlow: an organization with its admin, the legacy tenant with its   *)
(* admin, a closed organization and a newcomer.                            *)
(***************************************************************************)
FlowOrgs ==
    [o \in {"o1", "o3", "o5"} |->
        CASE o = "o1" -> OrgRow(LegacySlug, "church", TRUE, FALSE)
          [] o = "o3" -> OrgRow("acme", "free", TRUE, FALSE)
          [] OTHER -> OrgRow("closed", "free", FALSE, FALSE)]

FlowUsers ==
    [u \in {"a1", "j1", "s1"} |->
        CASE u = "a1" -> UserRow(u, "admin", "o3", "active")
          [] u = "s1" -> UserRow(u, "admin", "o1", "active")
          [] OTHER -> UserRow(u, "user", NoOrg, "active")]

InitFlow ==
    /\ users = FlowUsers
    /\ orgs = FlowOrgs
    /\ auditLogs = {}
    /\ logEntries = {}
    /\ resp = NoResponse
    /\ Quiet

(***************************************************************************)
(* InitQuota: a free-plan organization with its admin and k further       *)
(* active members, two newcomers and the operator.                        *)
(***************************************************************************)
QuotaOrgs == [o \in {"o3"} |-> OrgRow("acme", "free", TRUE, FALSE)]

QuotaUsers(k) ==
    [u \in {"a1", "j1", "j2", "s1"} \cup BackgroundIds |->
        CASE u = "a1" -> UserRow(u, "admin", "o3", "active")
          [] u \in {"j1", "j2"} -> UserRow(u, "user", NoOrg, "active")
          [] u = "s1" -> UserRow(u, "admin", NoOrg, "active")
          [] OTHER -> UserRow(u, "user",
                              IF u \in {BackgroundNames[i] : i \in 1..k} THEN "o3" ELSE NoOrg,
                              "active")]

InitQuota ==
    /\ \E k \in (NumBackground - 2)..NumBackground : users = QuotaUsers(k)
    /\ orgs = QuotaOrgs
    /\ auditLogs = {}
    /\ logEntries = {}
    /\ resp = NoResponse
    /\ Quiet

(***************************************************************************)
(* One action per request.                                                 *)
(***************************************************************************)
Respond(op, method, uid, target, r) ==
    /\ users' = r.db.users
    /\ orgs' = r.db.orgs
    /\ auditLogs' = r.db.auditLogs
    /\ logEntries' = r.db.logEntries
    /\ resp' = [op |-> op, method |-> method, caller |-> uid, target |-> target,
                status |-> r.status, detail |-> r.detail, rows |-> r.rows,
                commits |-> r.commits, written |-> r.written, lost |-> r.lost]
    /\ UNCHANGED <<redis, inflight, boot>>

Callers == DOMAIN users \cap ActorIds
Targets == (DOMAIN users \cap TargetIds) \cup {MissingUser}
Founders == Callers \cap TargetIds
Slugs == {LegacySlug, "acme", "new-church"}
RoleInputs == {NoValue, "user", "admin"}
OrgInputs == {NoValue} \cup OrgIds
HasFreshOrg == "o4" \notin DOMAIN orgs

\* the request bodies of PATCH /admin/users/{id} that are tried
UserUpdates ==
    {[role |-> "admin", org_id |-> NoValue, membership_status |-> NoValue],
     [role |-> "user", org_id |-> NoValue, membership_status |-> NoValue],
     [role |-> NoValue, org_id |-> NoValue, membership_status |-> "pending"],
     [role |-> NoValue, org_id |-> "o3", membership_status |-> "active"],
     [role |-> NoValue, org_id |-> "o5", membership_status |-> NoValue],
     [role |-> "admin", org_id |-> "o4", membership_status |-> NoValue]}

AnyRequest ==
    \E u \in Callers, m \in Methods :
        Respond("get_current_user", m, u, NoValue, get_current_user(DB, u, m))

CreateOrganization ==
    \E u \in Founders, slug \in Slugs :
        /\ HasFreshOrg
        /\ Respond("create_organization", "POST", u, slug, create_organization(DB, u, slug))

UpdateMyOrganization ==
    \E u \in Callers :
        Respond("update_my_organization", "PATCH", u, NoValue, update_my_organization(DB, u))

ListOrganizationMembers ==
    \E u \in Callers :
        Respond("list_organization_members", "GET", u, NoValue, list_organization_members(DB, u))

GetOrganizationAnalytics ==
    \E u \in Callers :
        Respond("get_organization_analytics", "GET", u, NoValue, get_organization_analytics(DB, u))

InviteMember ==
    \E u \in Callers, t \in Targets :
        Respond("invite_member", "POST", u, Email(t), invite_member(DB, u, Email(t)))

JoinOrganization ==
    \E u \in Callers, slug \in Slugs :
        Respond("join_organization", "POST", u, slug, join_organization(DB, u, slug))

ApproveMember ==
    \E u \in Callers, t \in Targets :
        Respond("approve_member", "POST", u, t, approve_member(DB, u, t))

RejectMember ==
    \E u \in Callers, t \in Targets :
        Respond("reject_member", "POST", u, t, reject_member(DB, u, t))

GetMemberAssessments ==
    \E u \in Callers, t \in Targets :
        Respond("get_member_assessments", "GET", u, t, get_member_assessments(DB, u, t))

UpdateOrganizationMember ==
    \E u \in Callers, t \in Targets, role \in RoleInputs :
        Respond("update_organization_member", "PATCH", u, t,
                update_organization_member(DB, u, t, role))

BulkApproveMembers ==
    \E u \in Callers, ids \in SUBSET Targets :
        Respond("bulk_approve_members", "POST", u, ids, bulk_approve_members(DB, u, ids))

BulkRejectMembers ==
    \E u \in Callers, ids \in SUBSET Targets :
        Respond("bulk_reject_members", "POST", u, ids, bulk_reject_members(DB, u, ids))

GetSystemLogs ==
    \E u \in Callers :
        Respond("get_system_logs", "GET", u, NoValue, get_system_logs(DB, u))

ListAllUsers ==
    \E u \in Callers, o \in OrgInputs :
        Respond("list_all_users", "GET", u, o, list_all_users(DB, u, o))

UpdateUser ==
    \E u \in Callers, t \in Targets, d \in UserUpdates :
        Respond("update_user", "PATCH", u, t,
                update_user(DB, u, t, d.role, d.org_id, d.membership_status))

\* the system admin puts a newcomer into the organization as an active member
PlaceMember ==
    \E u \in Callers \cap {"s1"}, t \in Targets \ {MissingUser} :
        Respond("update_user", "PATCH", u, t, update_user(DB, u, t, NoValue, "o3", "active"))

GetOrganizationDetails ==
    \E u \in Callers, o \in OrgIds :
        Respond("get_organization_details", "GET", u, o, get_organization_details(DB, u, o))

AdminCreateOrganization ==
    \E u \in Callers, slug \in Slugs :
        /\ HasFreshOrg
        /\ Respond("admin_create_organization", "POST", u, slug,
                   admin_create_organization(DB, u, slug))

UpdateOrganization ==
    \E u \in Callers, o \in OrgIds :
        Respond("update_organization", "PATCH", u, o, update_organization(DB, u, o))

GetAuditLogs ==
    \E u \in Callers, o \in OrgInputs :
        Respond("get_audit_logs", "GET", u, o, get_audit_logs(DB, u, o))

Next ==
    \/ AnyRequest
    \/ GetOrganizationAnalytics
    \/ InviteMember
    \/ JoinOrganization
    \/ ApproveMember
    \/ RejectMember
    \/ GetMemberAssessments
    \/ UpdateOrganizationMember
    \/ GetSystemLogs
    \/ ListAllUsers
    \/ UpdateUser
    \/ GetOrganizationDetails
    \/ GetAuditLogs

Spec == Init /\ [][Next]_vars

NextFlow ==
    \/ CreateOrganization
    \/ UpdateMyOrganization
    \/ ListOrganizationMembers
    \/ GetOrganizationAnalytics
    \/ InviteMember
    \/ JoinOrganization
    \/ ApproveMember
    \/ RejectMember
    \/ GetMemberAssessments
    \/ UpdateOrganizationMember
    \/ BulkApproveMembers
    \/ BulkRejectMembers
    \/ UpdateUser
    \/ AdminCreateOrganization
    \/ UpdateOrganization

SpecFlow == InitFlow /\ [][NextFlow]_vars

NextQuota ==
    \/ InviteMember
    \/ JoinOrganization
    \/ ApproveMember
    \/ RejectMember
    \/ BulkApproveMembers
    \/ BulkRejectMembers
    \/ PlaceMember

SpecQuota == InitQuota /\ [][NextQuota]_vars

(***************************************************************************)
(* SpecPlans: get_plan_features and resolve_limit called with every kind  *)
(* of plan name (NoValue is None) and of feature key.                      *)
(***************************************************************************)
\* what a direct call returned or raised
Returns(value, db) == [Reply(0, Msg(""), SessionLocal(db)) EXCEPT !.rows = {value}]

PlanNameInputs ==
    {NoValue, "", "free", "FREE", "Free", "individual", "Individual", "ministry",
     "MINISTRY", "church", "CHURCH", "starter", "Starter", "growth", "enterprise",
     "ENTERPRISE", "gold"}
FeatureInputs ==
    {"users", "admins", "assessments_per_month", "history_days", "exports",
     "org_support", "custom_weighting", "support_level", "available_themes",
     "theme_analytics", "custom_org_theming", "bulk_actions", "audit_logs"}

\* the names tried: the inputs and every plan name an organization carries
PlanNames == PlanNameInputs \cup {orgs[o].plan : o \in DOMAIN orgs}

GetPlanFeatures ==
    \E p \in PlanNames :
        Respond("get_plan_features", "", NoUser, [plan_name |-> p],
                Returns(get_plan_features(p), DB))

ResolveLimit ==
    \E p \in PlanNames, f \in FeatureInputs :
        Respond("resolve_limit", "", NoUser, [plan_name |-> p, feature |-> f],
                Returns(resolve_limit(p, f), DB))

NextPlans ==
    \/ GetPlanFeatures
    \/ ResolveLimit

SpecPlans == InitFlow /\ [][NextPlans]_vars

(***************************************************************************)
(* SpecThemes: one user, with or without an organization, whose           *)
(* organization is on any stored plan name, sets preferences.              *)
(***************************************************************************)
\* plan names found in organizations.plan: the webhook of routers/billing.py
\* stores "starter", PATCH /admin/organizations/{id} stores any string
StoredPlans == {"free", "individual", "Ministry", "church", "starter", "gold"}

ThemeInputs == {NoValue, "", "light", "ocean", "midnight", "neon"}
SyncInputs == {NoValue, "False"}
OrgKeyInputs == {NoValue, "o3"}

InitThemes ==
    /\ \E r \in {"user", "admin"}, o \in {"o3", NoOrg} :
          users = [u \in {"a1"} |-> UserRow(u, r, o, "active")]
    /\ \E p \in StoredPlans : orgs = [o \in {"o3"} |-> OrgRow("acme", p, TRUE, FALSE)]
    /\ auditLogs = {}
    /\ logEntries = {}
    /\ resp = NoResponse
    /\ Quiet

UpdateUserPreferences ==
    \E u \in Callers, o \in OrgKeyInputs, t \in ThemeInputs, y \in SyncInputs :
        Respond("update_user_preferences", "PATCH", u,
                [org_id |-> o, theme |-> t, sync_across_orgs |-> y],
                update_user_preferences(DB, u, o, [theme |-> t, sync_across_orgs |-> y]))

GetThemeAnalytics ==
    \E u \in Callers :
        Respond("get_theme_analytics", "GET", u, NoValue, get_theme_analytics(DB, u))

NextThemes ==
    \/ UpdateUserPreferences
    \/ GetThemeAnalytics

SpecThemes == InitThemes /\ [][NextThemes]_vars

(***************************************************************************)
(* SpecAuth: requests that carry a token in the Authorization header or   *)
(* in the access_token cookie, while the system admin changes the role,   *)
(* organization and membership of j1.                                     *)
(***************************************************************************)
AuthOrgs ==
    [o \in {"o1", "o2", "o3"} |->
        CASE o = "o1" -> OrgRow(LegacySlug, "church", TRUE, FALSE)
          [] o = "o2" -> OrgRow(DemoSlug, "church", TRUE, TRUE)
          [] OTHER -> OrgRow("acme", "free", TRUE, FALSE)]

AuthUsers ==
    [u \in {"a1", "j1", "s1"} |->
        CASE u = "a1" -> UserRow(u, "admin", "o3", "active")
          [] u = "s1" -> UserRow(u, "admin", "o1", "active")
          [] OTHER -> UserRow(u, "user", "o2", "active")]

InitAuth ==
    /\ users = AuthUsers
    /\ orgs = AuthOrgs
    /\ auditLogs = {}
    /\ logEntries = {}
    /\ resp = NoResponse
    /\ Quiet

TokenStates == {"valid", "expired", "bad_signature"}
SubInputs == {NoValue, "abc", str(MissingUser)} \cup {str(u) : u \in {"a1", "j1"}}
RoleClaims == {"user", "admin"}
\* the header carries any token or is not sent
CredentialInputs ==
    {NoToken} \cup {Token(st, sub, r) : st \in TokenStates, sub \in SubInputs, r \in RoleClaims}
\* the cookie is not sent, is empty, or carries a token issued to a user of the store
CookieInputs ==
    {NoToken, Token("empty", NoValue, NoValue)}
        \cup {Token("valid", str(u), users[u].role) : u \in DOMAIN users \cap {"a1"}}

RequestWithToken ==
    \E cr \in CredentialInputs, ck \in CookieInputs, m \in {"GET", "POST"} :
        Respond("get_current_user_request", m, NoUser, [credentials |-> cr, cookie |-> ck],
                get_current_user_request(DB, cr, ck, m))

UpdateUserPreferencesWithToken ==
    \E cr \in CredentialInputs, ck \in CookieInputs :
        Respond("update_user_preferences_request", "PATCH", NoUser,
                [credentials |-> cr, cookie |-> ck],
                update_user_preferences_request(DB, cr, ck, NoValue,
                    [theme |-> "dark", sync_across_orgs |-> NoValue]))

NextAuth ==
    \/ RequestWithToken
    \/ UpdateUserPreferencesWithToken
    \/ UpdateUser

SpecAuth == InitAuth /\ [][NextAuth]_vars

(***************************************************************************)
(* SpecAudit: the emitter called for each actor of the flow scenario,     *)
(* with every kind of details, while j1 joins an organization.            *)
(***************************************************************************)
AuditTargets ==
    {[target_type |-> "user", target_id |-> "j1"],
     [target_type |-> "organization", target_id |-> "o3"]}

LogAction ==
    \E u \in Callers, t \in AuditTargets, d \in DetailKinds, then_commit \in BOOLEAN :
        Respond("log_action", "AUDIT", u,
                [action |-> "test_action", target_type |-> t.target_type,
                 target_id |-> t.target_id, details |-> d, then_commit |-> then_commit],
                emit(DB, u, "test_action", t.target_type, t.target_id, d, then_commit))

NextAudit ==
    \/ LogAction
    \/ JoinOrganization

SpecAudit == InitFlow /\ [][NextAudit]_vars

(***************************************************************************)
(* SpecBilling: deliveries of Stripe events to POST /billing/webhook for  *)
(* the organizations of InitFlow, with the event store and the database   *)
(* reachable or not at each call, and the expiry of processed-event keys. *)
(***************************************************************************)
Event(id, type, customer, org_id, plan, status, price_id) ==
    [id |-> id, type |-> type, customer |-> customer, org_id |-> org_id, plan |-> plan,
     status |-> status, price_id |-> price_id]

\* the events Stripe sends: a checkout without and with a plan in its metadata,
\* a change to the enterprise price, a cancellation, and a type without handler
StripeEvents ==
    {Event("evt_1", "checkout.session.completed", "cus_1", "o3", NoValue, NoValue, NoValue),
     Event("evt_2", "checkout.session.completed", "cus_1", "o3", "ministry", NoValue, NoValue),
     Event("evt_3", "customer.subscription.updated", "cus_1", NoValue, NoValue, "active",
           STRIPE_PRICES.enterprise),
     Event("evt_4", "customer.subscription.deleted", "cus_1", NoValue, NoValue, NoValue, NoValue),
     Event("evt_5", "customer.created", "cus_1", NoValue, NoValue, NoValue, NoValue)}

\* the events about the organizations of the store
Deliveries == {e \in StripeEvents : e.org_id \in {NoValue} \cup DOMAIN orgs}

Signatures == {NoValue, "bad_payload", "bad", "good"}
Availability == [up_check : BOOLEAN, up_mark : BOOLEAN, db_up : BOOLEAN]

RespondWebhook(event, sig_header, up_check, up_mark, db_up, r) ==
    /\ users' = r.db.users
    /\ orgs' = r.db.orgs
    /\ auditLogs' = r.db.auditLogs
    /\ logEntries' = r.db.logEntries
    /\ redis' = r.store
    /\ resp' = [op |-> "stripe_webhook", method |-> "POST", caller |-> NoUser,
                target |-> [event |-> event, sig_header |-> sig_header,
                            up_check |-> up_check, up_mark |-> up_mark, db_up |-> db_up],
                status |-> r.status, detail |-> r.detail, rows |-> r.rows,
                commits |-> r.commits, written |-> r.written, lost |-> r.lost]
    /\ UNCHANGED <<inflight, boot>>

StripeWebhook ==
    \E event \in Deliveries, sig_header \in Signatures, a \in Availability :
        RespondWebhook(event, sig_header, a.up_check, a.up_mark, a.db_up,
            stripe_webhook(DB, redis, event, sig_header, a.up_check, a.up_mark, a.db_up))

\* client.setex(key, EVENT_TTL_SECONDS, "1"): the key is gone after 24 hours
ExpireEvent ==
    \E key \in redis :
        /\ redis' = redis \ {key}
        /\ resp' = [NoResponse EXCEPT !.op = "expire", !.target = key]
        /\ UNCHANGED <<users, orgs, auditLogs, logEntries, inflight, boot>>

NextBilling ==
    \/ StripeWebhook
    \/ ExpireEvent

SpecBilling == InitFlow /\ [][NextBilling]_vars

(***************************************************************************)
(* SpecSeats: the membership requests of the quota scenario, one at a     *)
(* time, with no change of plan and no placement by the system admin.     *)
(***************************************************************************)
NextSeats ==
    \/ JoinOrganization
    \/ ApproveMember
    \/ BulkApproveMembers
    \/ RejectMember
    \/ BulkRejectMembers

SpecSeats == InitQuota /\ [][NextSeats]_vars

(***************************************************************************)
(* SpecRace: approvals served by two workers on one database.  A request  *)
(* runs its guards and queries and stages its changes in one step (it     *)
(* reads what is committed at that moment) and reaches db.commit() in a   *)
(* later step; no row is locked in between.  One seat of the free-plan    *)
(* organization is open and j1 and j2 are pending.                        *)
(***************************************************************************)
RaceUsers ==
    [u \in {"a1", "j1", "j2"} \cup BackgroundIds |->
        CASE u = "a1" -> UserRow(u, "admin", "o3", "active")
          [] u \in {"j1", "j2"} -> UserRow(u, "user", "o3", "pending")
          [] OTHER -> UserRow(u, "user",
                              IF u \in {BackgroundNames[i] :
                                           i \in 1..(TIER_FEATURES["free"].users.n - 2)}
                              THEN "o3" ELSE NoOrg,
                              "active")]

InitRace ==
    /\ users = RaceUsers
    /\ orgs = QuotaOrgs
    /\ auditLogs = {}
    /\ logEntries = {}
    /\ resp = NoResponse
    /\ Quiet

\* the request of worker w at db.commit(): the rows its session changed
Staged(op, uid, target, r) ==
    [pc |-> "staged", op |-> op, caller |-> uid, target |-> target,
     writes |-> {u \in DOMAIN users : /\ r.db.users[u].membership_status = "active"
                                      /\ users[u].membership_status # "active"},
     audit |-> r.db.auditLogs \ auditLogs, logs |-> r.db.logEntries \ logEntries,
     status |-> r.status, detail |-> r.detail, ran |-> FALSE]

\* a request that commits nothing is answered at once; another one waits at
\* its commit
Begin(w, op, uid, target, r) ==
    /\ inflight[w].pc = "idle"
    /\ IF r.commits = 0
       THEN /\ resp' = [op |-> op, method |-> "POST", caller |-> uid, target |-> target,
                        status |-> r.status, detail |-> r.detail, rows |-> r.rows,
                        commits |-> 0, written |-> 0, lost |-> r.lost]
            /\ UNCHANGED inflight
       ELSE /\ resp' = [NoResponse EXCEPT !.op = "begin", !.caller = uid]
            /\ inflight' = [inflight EXCEPT ![w] = Staged(op, uid, target, r)]
    /\ UNCHANGED <<users, orgs, auditLogs, logEntries, redis, boot>>

BeginApproveMember ==
    \E w \in Workers, u \in Callers \cap {"a1"}, t \in Targets :
        Begin(w, "approve_member", u, t, approve_member(DB, u, t))

BeginBulkApproveMembers ==
    \E w \in Workers, u \in Callers \cap {"a1"}, ids \in SUBSET (Targets \ {MissingUser}) :
        Begin(w, "bulk_approve_members", u, ids, bulk_approve_members(DB, u, ids))

\* db.commit(): UPDATE users SET membership_status = 'active' for the staged rows
CommitApproval ==
    \E w \in Workers :
        /\ inflight[w].pc = "staged"
        /\ users' = [u \in DOMAIN users |->
                        IF u \in inflight[w].writes
                        THEN [users[u] EXCEPT !.membership_status = "active"]
                        ELSE users[u]]
        /\ auditLogs' = auditLogs \cup inflight[w].audit
        /\ logEntries' = logEntries \cup inflight[w].logs
        /\ resp' = [op |-> inflight[w].op, method |-> "POST", caller |-> inflight[w].caller,
                    target |-> inflight[w].target, status |-> inflight[w].status,
                    detail |-> inflight[w].detail, rows |-> {}, commits |-> 1,
                    written |-> Cardinality(inflight[w].audit), lost |-> 0]
        /\ inflight' = [inflight EXCEPT ![w] = NoRequest]
        /\ UNCHANGED <<orgs, redis, boot>>

NextRace ==
    \/ BeginApproveMember
    \/ BeginBulkApproveMembers
    \/ CommitApproval

SpecRace == InitRace /\ [][NextRace]_vars

(***************************************************************************)
(* SpecDeliveries: two workers serve deliveries of Stripe events with a   *)
(* valid signature while the event store is reachable.  A delivery is     *)
(* three steps, the calls of is_event_processed, of the handler and of    *)
(* mark_event_processed; a worker that has answered keeps the record of   *)
(* what it did.                                                            *)
(***************************************************************************)
Delivery(pc, event, ran, status, text) ==
    [NoRequest EXCEPT !.pc = pc, !.op = "stripe_webhook", !.target = event, !.ran = ran,
                      !.status = status, !.detail = MsgArgs(text, [event_id |-> event.id])]

WebhookStep(w, request) ==
    /\ inflight' = [inflight EXCEPT ![w] = request]
    /\ resp' = [NoResponse EXCEPT !.op = "stripe_webhook", !.method = "POST",
                                  !.target = request.target, !.status = request.status,
                                  !.detail = request.detail]

\* up to the idempotency check
WebhookCheck ==
    \E w \in Workers, event \in Deliveries :
        /\ inflight[w].pc = "idle"
        /\ IF is_event_processed(redis, TRUE, event.id)
           THEN WebhookStep(w, Delivery("done", event, FALSE, 200, "already_processed"))
           ELSE WebhookStep(w, Delivery("checked", event, FALSE, 0, ""))
        /\ UNCHANGED <<users, orgs, auditLogs, logEntries, redis, boot>>

\* the handler of the event type
WebhookHandle ==
    \E w \in Workers, db_up \in BOOLEAN :
        /\ inflight[w].pc = "checked"
        /\ LET event == inflight[w].target
               h == dispatch(SessionLocal(DB), event, db_up)
           IN  IF IsRaised(h)
               THEN /\ WebhookStep(w, Delivery("done", event, FALSE, 500, "Event processing failed"))
                    /\ UNCHANGED <<users, orgs, auditLogs, logEntries>>
               ELSE /\ WebhookStep(w, Delivery("handled", event, Ran(event, h) # {}, 0, ""))
                    /\ users' = close(h).users
                    /\ orgs' = close(h).orgs
                    /\ auditLogs' = close(h).auditLogs
                    /\ logEntries' = close(h).logEntries
        /\ UNCHANGED <<redis, boot>>

\* mark_event_processed and the answer
WebhookMark ==
    \E w \in Workers :
        /\ inflight[w].pc = "handled"
        /\ redis' = mark_event_processed(redis, TRUE, inflight[w].target.id).store
        /\ WebhookStep(w, Delivery("done", inflight[w].target, inflight[w].ran, 200, "success"))
        /\ UNCHANGED <<users, orgs, auditLogs, logEntries, boot>>

NextDeliveries ==
    \/ WebhookCheck
    \/ WebhookHandle
    \/ WebhookMark

SpecDeliveries == InitFlow /\ [][NextDeliveries]_vars

(***************************************************************************)
(* SpecFounders: the self-service and org-admin requests on the store of  *)
(* InitFlow; the newcomer j1 can found the organization o4.               *)
(***************************************************************************)
NextFounders ==
    \/ CreateOrganization
    \/ JoinOrganization
    \/ ApproveMember
    \/ RejectMember
    \/ BulkRejectMembers
    \/ UpdateOrganizationMember

SpecFounders == InitFlow /\ [][NextFounders]_vars

(***************************************************************************)
(* SpecGuards: the system-admin guard and the org-admin guard on every    *)
(* store of Init.                                                          *)
(***************************************************************************)
AdminGuards ==
    \E u \in Callers, m \in Methods :
        Respond("admin_guards", m, u, NoValue, admin_guards(DB, u, m))

NextGuards ==
    \/ AdminGuards
    \/ GetSystemLogs
    \/ GetOrganizationDetails

SpecGuards == Init /\ [][NextGuards]_vars

(***************************************************************************)
(* SpecSelf: what a newcomer can do alone.  j1 is registered and j2 is    *)
(* not; a1 runs the organization acme, the operator's account s1 exists;  *)
(* the legacy tenant exists or does not.  The tables hold log rows of     *)
(* acme.  Nobody calls PATCH /admin/users.                                *)
(***************************************************************************)
SelfOrgs(legacy) ==
    [o \in (IF legacy THEN {"o1"} ELSE {}) \cup {"o3"} |->
        IF o = "o1" THEN OrgRow(LegacySlug, "church", TRUE, FALSE)
        ELSE OrgRow("acme", "free", TRUE, FALSE)]

SelfUsers ==
    [u \in {"a1", "j1", "s1"} |->
        CASE u = "a1" -> UserRow(u, "admin", "o3", "active")
          [] u = "s1" -> UserRow(u, "admin", NoOrg, "active")
          [] OTHER -> UserRow(u, "user", NoOrg, "active")]

InitSelf ==
    /\ users = SelfUsers
    /\ \E legacy \in BOOLEAN : orgs = SelfOrgs(legacy)
    /\ auditLogs = {[actor_id |-> "a1", org_id |-> "o3", action |-> "seed",
                     resource |-> "organization:o3"]}
    /\ logEntries = {[user_id |-> "a1", org_id |-> "o3", event |-> "seed"]}
    /\ resp = NoResponse
    /\ Quiet

\* the addresses that log in: every registered one and that of j2
LoginEmails == {users[u].email : u \in Callers} \cup {"j2"}

Login ==
    \E email \in LoginEmails :
        Respond("get_or_create_user", "POST", NoUser, email, get_or_create_user(DB, email))

NextSelf ==
    \/ Login
    \/ CreateOrganization
    \/ JoinOrganization
    \/ AdminGuards
    \/ GetSystemLogs
    \/ ListAllUsers

SpecSelf == InitSelf /\ [][NextSelf]_vars

(***************************************************************************)
(* SpecBoot: startups of the application, logins and requests to the      *)
(* admin guards on the store of InitSelf, where the operator's account    *)
(* has the role admin.  SpecStartup is the startups alone, and           *)
(* SpecStartupLive adds that a started loop body finishes: create_all     *)
(* returns or raises.                                                      *)
(***************************************************************************)
NameResolutionError ==
    <<"n", "a", "m", "e", " ", "r", "e", "s", "o", "l", "u", "t", "i", "o",
      "n", " ", "e", "r", "r", "o", "r">>
DnsFailure ==
    <<"D", "N", "S", " ", "f", "a", "i", "l", "u", "r", "e">>
ConnectionRefused ==
    <<"C", "o", "n", "n", "e", "c", "t", "i", "o", "n", " ", "r", "e", "f",
      "u", "s", "e", "d">>
NetworkUnreachable ==
    <<"N", "e", "t", "w", "o", "r", "k", " ", "i", "s", " ", "u", "n", "r",
      "e", "a", "c", "h", "a", "b", "l", "e">>
SyntaxErrorNear ==
    <<"S", "y", "n", "t", "a", "x", " ", "e", "r", "r", "o", "r", " ", "n",
      "e", "a", "r", " ", "(">>

\* what create_all does: it returns, or raises an exception with a message
Outcomes ==
    {<<>>, NameResolutionError, DnsFailure, ConnectionRefused, NetworkUnreachable,
     SyntaxErrorNear}

BootStep(b) ==
    /\ boot' = b
    /\ resp' = [NoResponse EXCEPT !.op = "lifespan"]
    /\ UNCHANGED <<redis, inflight>>

\* the process starts; outside development the database part is skipped
StartUp ==
    \E env \in {"development", "production"} :
        /\ boot.state \in {"down", "up", "failed"}
        /\ IF env = "development"
           THEN BootStep([NoBoot EXCEPT !.state = "connecting", !.retry_delay = retry_delay])
           ELSE BootStep([NoBoot EXCEPT !.state = "up"])
        /\ UNCHANGED <<users, orgs, auditLogs, logEntries>>

CreateAll ==
    \E outcome \in Outcomes :
        /\ boot.state = "connecting"
        /\ BootStep(attempt_create_all(boot, outcome))
        /\ UNCHANGED <<users, orgs, auditLogs, logEntries>>

SelfHealing ==
    \E db_up \in BOOLEAN :
        /\ boot.state = "healing"
        /\ BootStep([boot EXCEPT !.state = "up"])
        /\ users' = startup_self_healing(DB, db_up).users
        /\ UNCHANGED <<orgs, auditLogs, logEntries>>

NextStartup ==
    \/ StartUp
    \/ CreateAll
    \/ SelfHealing

SpecStartup == InitSelf /\ [][NextStartup]_vars

SpecStartupLive == SpecStartup /\ WF_vars(CreateAll)

NextBoot ==
    \/ StartUp
    \/ CreateAll
    \/ SelfHealing
    \/ Login
    \/ AdminGuards

SpecBoot == InitSelf /\ [][NextBoot]_vars

(***************************************************************************)
(* Properties.  resp' is the response of the request a step serves; the   *)
(* unprimed tables are the store the request found.                        *)
(***************************************************************************)

\* C1: a caller whose organization has is_demo set gets 403 from
\* get_user_context for every method other than GET, HEAD and OPTIONS,
\* whatever the caller's role and membership status, and nothing stored
\* changes; for GET, HEAD and OPTIONS the caller gets the Context of that
\* user and organization.
DemoOrganizationIsReadOnly ==
    [][LET u == resp'.caller
           org == users[u].org_id
       IN  (org # NoOrg /\ orgs[org].is_demo) =>
             /\ resp'.method \notin {"GET", "HEAD", "OPTIONS"} =>
                   /\ resp'.status = 403
                   /\ resp'.detail.text = "This is a demo organization. Write actions are disabled."
                   /\ UNCHANGED <<users, orgs, auditLogs, logEntries>>
             /\ (resp'.op = "get_current_user" /\ resp'.method \in {"GET", "HEAD", "OPTIONS"}) =>
                   /\ resp'.status = 200
                   /\ resp'.rows = {[user |-> u, organization |-> org,
                                     role |-> users[u].role, permissions |-> <<>>]}
      ]_vars

\* a super_admin of the demo organization had a DELETE refused
DemoWriteRefused ==
    /\ resp.op = "get_current_user"
    /\ resp.method = "DELETE"
    /\ resp.status = 403
    /\ users[resp.caller].role = "super_admin"
    /\ users[resp.caller].org_id # NoOrg
    /\ orgs[users[resp.caller].org_id].is_demo

\* C2: get_current_admin lets the caller through exactly when the role is
\* admin and the email is the operator's or the organization is the legacy
\* tenant; the role is checked first ("Administrative privileges
\* required"), an admin with neither gets "System Administrator privileges
\* required", and an admin of the legacy tenant passes without the
\* operator's email.
SystemAdminGuard ==
    [][resp'.op \in {"update_user", "get_organization_details"} =>
       LET u == users[resp'.caller]
           refused_as_demo == /\ u.org_id # NoOrg
                              /\ orgs[u.org_id].is_demo
                              /\ resp'.method \notin {"GET", "HEAD", "OPTIONS"}
           listed == u.email = OperatorEmail
           legacy == u.org_id # NoOrg /\ orgs[u.org_id].slug = LegacySlug
       IN  ~refused_as_demo =>
             /\ u.role # "admin" =>
                   /\ resp'.status = 403
                   /\ resp'.detail.text = "Administrative privileges required"
             /\ (u.role = "admin" /\ ~listed /\ ~legacy) =>
                   /\ resp'.status = 403
                   /\ resp'.detail.text = "System Administrator privileges required"
             /\ (u.role = "admin" /\ (listed \/ legacy)) => resp'.status \in {200, 404}
      ]_vars

\* an admin of the legacy tenant without the operator's email was served
LegacyAdminServed ==
    /\ resp.op = "get_organization_details"
    /\ resp.status = 200
    /\ users[resp.caller].role = "admin"
    /\ users[resp.caller].email # OperatorEmail
    /\ users[resp.caller].org_id # NoOrg
    /\ orgs[users[resp.caller].org_id].slug = LegacySlug

\* C3: get_org_admin lets the caller through exactly when the role is
\* super_admin, or the role is admin and the organization is the legacy
\* tenant, or the role is admin and the Context has an organization; every
\* other caller gets 403.
OrgAdminGuardAsStated ==
    [][resp'.op \in {"get_system_logs", "list_all_users"} =>
       LET u == users[resp'.caller]
           allowed == \/ u.role = "super_admin"
                      \/ u.role = "admin" /\ u.org_id # NoOrg
       IN  IF allowed THEN resp'.status = 200 ELSE resp'.status = 403
      ]_vars

\* C4: a caller whose membership_status is not active is refused with 403 by
\* require_org and by get_org_admin, whatever the role and the organization.
InactiveMembershipRefusedAsStated ==
    [][(/\ resp'.op \in {"get_organization_analytics", "invite_member", "approve_member",
                         "reject_member", "get_member_assessments",
                         "update_organization_member", "get_system_logs", "list_all_users"}
        /\ users[resp'.caller].membership_status # "active")
       => resp'.status = 403
      ]_vars

\* C5: require_org gives the organization only when it is present, active
\* and the membership is active; otherwise 403 for the first failing check
\* in the order missing, inactive, membership not active.  A pending caller
\* gets 403 from every endpoint behind require_org and no user or
\* organization changes.
RequireOrgOrder ==
    [][resp'.op \in {"update_my_organization", "list_organization_members",
                     "get_organization_analytics", "invite_member", "approve_member",
                     "reject_member", "get_member_assessments",
                     "update_organization_member", "bulk_approve_members",
                     "bulk_reject_members"} =>
       LET u == users[resp'.caller]
           refusals == {"Organization membership required", "Organization is inactive",
                        "Organization membership is pending approval"}
           missing == u.org_id = NoOrg
           inactive == ~missing /\ ~orgs[u.org_id].is_active
           member == u.membership_status = "active"
       IN  /\ missing =>
                /\ resp'.status = 403
                /\ resp'.detail.text = "Organization membership required"
           /\ inactive =>
                /\ resp'.status = 403
                /\ resp'.detail.text = "Organization is inactive"
           /\ (~missing /\ ~inactive /\ ~member) =>
                /\ resp'.status = 403
                /\ resp'.detail.text = "Organization membership is pending approval"
           /\ (~missing /\ ~inactive /\ member) =>
                /\ resp'.detail.text \notin refusals
                /\ resp'.op = "get_organization_analytics" => resp'.rows = {u.org_id}
           /\ u.membership_status = "pending" =>
                /\ resp'.status = 403
                /\ users' = users
                /\ orgs' = orgs
      ]_vars

\* a pending admin of a closed organization was told that it is inactive
PendingAdminRefused ==
    /\ resp.op = "update_organization_member"
    /\ resp.status = 403
    /\ resp.detail.text = "Organization is inactive"
    /\ users[resp.caller].role = "admin"
    /\ users[resp.caller].membership_status = "pending"

\* C6: approve_member, reject_member, update_organization_member and
\* get_member_assessments answer a target of another organization with the
\* 404 they give for a target that does not exist and leave the target as
\* it is; bulk_approve_members and bulk_reject_members change no user of
\* another organization.
CrossTenantTargetHidden ==
    [][LET u == users[resp'.caller]
           t == resp'.target
           serving == /\ u.org_id # NoOrg
                      /\ orgs[u.org_id].is_active
                      /\ u.membership_status = "active"
                      /\ u.role = "admin"
       IN  /\ (/\ resp'.op \in {"approve_member", "reject_member",
                                "update_organization_member", "get_member_assessments"}
               /\ serving
               /\ (t \notin DOMAIN users \/ users[t].org_id # u.org_id)) =>
                 /\ resp'.status = 404
                 /\ resp'.detail.text =
                       (CASE resp'.op \in {"approve_member", "reject_member"} ->
                                "User not found in this organization"
                          [] resp'.op = "get_member_assessments" ->
                                "Member not found in this organization"
                          [] OTHER -> "Member not found in your organization")
                 /\ resp'.rows = {}
                 /\ UNCHANGED <<users, orgs, auditLogs, logEntries>>
           /\ resp'.op \in {"bulk_approve_members", "bulk_reject_members"} =>
                 \A x \in DOMAIN users : users[x].org_id # u.org_id => users'[x] = users[x]
      ]_vars

\* an admin asked to approve a pending member of another organization
ForeignPendingTargetNotFound ==
    /\ resp.op = "approve_member"
    /\ resp.status = 404
    /\ resp.target \in DOMAIN users
    /\ users[resp.target].membership_status = "pending"
    /\ users[resp.target].org_id # NoOrg
    /\ users[resp.target].org_id # users[resp.caller].org_id

\* C7: on /admin/logs, /admin/users and /audit/logs only a super_admin or an
\* admin of the legacy tenant receives rows of an organization other than
\* their own; every other caller that is served receives rows of their own
\* organization only, and an org admin asking for another organization's
\* audit logs gets 403.
TenantScopedListingsAsStated ==
    [][resp'.op \in {"get_system_logs", "list_all_users", "get_audit_logs"} =>
       LET u == users[resp'.caller]
           legacy == u.org_id # NoOrg /\ orgs[u.org_id].slug = LegacySlug
           privileged == u.role = "super_admin" \/ (u.role = "admin" /\ legacy)
           rowOrgs == IF resp'.op = "list_all_users"
                      THEN {users[r].org_id : r \in resp'.rows}
                      ELSE {r.org_id : r \in resp'.rows}
       IN  /\ ~privileged => rowOrgs \subseteq {u.org_id}
           /\ (/\ resp'.op = "get_audit_logs"
               /\ u.role = "admin"
               /\ ~legacy
               /\ resp'.target \notin {NoValue, u.org_id}) => resp'.status = 403
      ]_vars

\* C8: for every privileged mutation handler the audit row is staged before
\* the handler's commit and written by it: the action is persisted exactly
\* when its audit row is, and no audit row is left behind or written alone.
AuditRowCommittedWithActionAsStated ==
    resp.op \in {"create_organization", "update_my_organization", "join_organization",
                 "approve_member", "reject_member", "update_organization_member",
                 "bulk_approve_members", "bulk_reject_members", "update_user",
                 "admin_create_organization", "update_organization"} =>
       LET none == /\ resp.op = "bulk_reject_members"
                   /\ resp.commits > 0
                   /\ resp.detail.args.rejected_count = 0
           acted == resp.commits > 0 /\ ~none
       IN  /\ acted => (resp.written >= 1 /\ resp.lost = 0)
           /\ ~acted => resp.written = 0

\* C9: bulk_approve_members with N >= 1 eligible targets and capacity
\* C = limit - active: N > C gives 403 stating C and N and no user changes;
\* N <= C makes exactly the N targets active and changes no other user.
\* With no eligible target the answer is 200 with approved_count 0 and no
\* user changes, whatever the capacity.
BulkApproveAllOrNothing ==
    [][resp'.op = "bulk_approve_members" =>
       LET u == users[resp'.caller]
           org == u.org_id
           serving == /\ org # NoOrg
                      /\ orgs[org].is_active
                      /\ u.membership_status = "active"
                      /\ u.role = "admin"
           eligible == {t \in resp'.target \cap DOMAIN users :
                           users[t].org_id = org /\ users[t].membership_status = "pending"}
           N == Cardinality(eligible)
           limit == get_plan_features(orgs[org].plan).users
           active == Cardinality({x \in DOMAIN users :
                           users[x].org_id = org /\ users[x].membership_status = "active"})
           over == ~limit.inf /\ N > limit.n - active
       IN  serving =>
             /\ (N >= 1 /\ over) =>
                   /\ resp'.status = 403
                   /\ resp'.detail.args.available_slots = Finite(limit.n - active)
                   /\ resp'.detail.args.users = N
                   /\ users' = users
             /\ (N >= 1 /\ ~over) =>
                   /\ resp'.status = 200
                   /\ users' = [x \in DOMAIN users |->
                                   IF x \in eligible
                                   THEN [users[x] EXCEPT !.membership_status = "active"]
                                   ELSE users[x]]
             /\ N = 0 =>
                   /\ resp'.status = 200
                   /\ resp'.detail.args.approved_count = 0
                   /\ users' = users
      ]_vars

\* two pending members were refused together because one seat was left
BulkApproveRefusedWhole ==
    /\ resp.op = "bulk_approve_members"
    /\ resp.status = 403
    /\ resp.detail.text =
          "Tier limit reached. You only have slots available, but tried to approve users."
    /\ resp.detail.args.available_slots = Finite(1)
    /\ resp.detail.args.users = 2
    /\ \A t \in resp.target : users[t].membership_status = "pending"

\* C9 as stated: N > C gives 403 stating C and N and no user changes, N <= C
\* makes exactly the N targets active, for every N.
BulkApproveAllOrNothingAsStated ==
    [][resp'.op = "bulk_approve_members" =>
       LET u == users[resp'.caller]
           org == u.org_id
           serving == /\ org # NoOrg
                      /\ orgs[org].is_active
                      /\ u.membership_status = "active"
                      /\ u.role = "admin"
           eligible == {t \in resp'.target \cap DOMAIN users :
                           users[t].org_id = org /\ users[t].membership_status = "pending"}
           N == Cardinality(eligible)
           limit == get_plan_features(orgs[org].plan).users
           active == Cardinality({x \in DOMAIN users :
                           users[x].org_id = org /\ users[x].membership_status = "active"})
           over == ~limit.inf /\ N > limit.n - active
       IN  serving =>
             /\ over =>
                   /\ resp'.status = 403
                   /\ users' = users
             /\ ~over =>
                   /\ resp'.status = 200
                   /\ users' = [x \in DOMAIN users |->
                                   IF x \in eligible
                                   THEN [users[x] EXCEPT !.membership_status = "active"]
                                   ELSE users[x]]
      ]_vars

\* C10: invite_member, approve_member and bulk_approve_members (with at
\* least one eligible target) deny with 403 exactly when the current count
\* plus the seats asked for is greater than the plan's user limit, the
\* count being all members for an invitation and the active members for an
\* approval; the invitation's message states plan and limit, the
\* approval's the limit, the bulk approval's the seats left and the number
\* asked for; a denied request changes no user.
QuotaDeniesAboveLimit ==
    [][resp'.op \in {"invite_member", "approve_member", "bulk_approve_members"} =>
       LET u == users[resp'.caller]
           org == u.org_id
           serving == /\ org # NoOrg
                      /\ orgs[org].is_active
                      /\ u.membership_status = "active"
                      /\ u.role = "admin"
           limit == get_plan_features(orgs[org].plan).users
           members == Cardinality({x \in DOMAIN users : users[x].org_id = org})
           active == Cardinality({x \in DOMAIN users :
                           users[x].org_id = org /\ users[x].membership_status = "active"})
           eligible == {t \in resp'.target \cap DOMAIN users :
                           users[t].org_id = org /\ users[t].membership_status = "pending"}
           N == Cardinality(eligible)
           denied == resp'.status = 403
       IN  serving =>
             /\ resp'.op = "invite_member" =>
                   /\ denied <=> (~limit.inf /\ members + 1 > limit.n)
                   /\ denied => /\ resp'.detail.args.plan = orgs[org].plan
                                /\ resp'.detail.args.max_users = limit
                                /\ users' = users
             /\ (/\ resp'.op = "approve_member"
                 /\ resp'.target \in DOMAIN users
                 /\ users[resp'.target].org_id = org
                 /\ users[resp'.target].membership_status = "pending") =>
                   /\ denied <=> (~limit.inf /\ active + 1 > limit.n)
                   /\ denied => /\ resp'.detail.args.max_users = limit
                                /\ users' = users
             /\ (resp'.op = "bulk_approve_members" /\ N >= 1) =>
                   /\ denied <=> (~limit.inf /\ active + N > limit.n)
                   /\ denied => /\ resp'.detail.args.available_slots = Finite(limit.n - active)
                                /\ resp'.detail.args.users = N
                                /\ users' = users
      ]_vars

\* the approval that fills the last seat of the plan was granted
LastSeatGranted ==
    /\ resp.op = "approve_member"
    /\ resp.status = 200
    /\ resp.detail.text = "User approved"
    /\ users[resp.caller].org_id # NoOrg
    /\ ~get_plan_features(orgs[users[resp.caller].org_id].plan).users.inf
    /\ Cardinality({x \in DOMAIN users :
                       /\ users[x].org_id = users[resp.caller].org_id
                       /\ users[x].membership_status = "active"})
          = get_plan_features(orgs[users[resp.caller].org_id].plan).users.n

\* C10 as stated: the three handlers deny with 403 exactly when the current
\* count plus the seats asked for is greater than or equal to the limit, the
\* message states the limit and the number asked for, and a denied request
\* changes no user.
QuotaDeniesAtLimitAsStated ==
    [][resp'.op \in {"invite_member", "approve_member", "bulk_approve_members"} =>
       LET u == users[resp'.caller]
           org == u.org_id
           serving == /\ org # NoOrg
                      /\ orgs[org].is_active
                      /\ u.membership_status = "active"
                      /\ u.role = "admin"
           limit == get_plan_features(orgs[org].plan).users
           members == Cardinality({x \in DOMAIN users : users[x].org_id = org})
           active == Cardinality({x \in DOMAIN users :
                           users[x].org_id = org /\ users[x].membership_status = "active"})
           eligible == {t \in resp'.target \cap DOMAIN users :
                           users[t].org_id = org /\ users[t].membership_status = "pending"}
           N == Cardinality(eligible)
           denied == resp'.status = 403
           stated == /\ "max_users" \in DOMAIN resp'.detail.args
                     /\ resp'.detail.args.max_users = limit
                     /\ "users" \in DOMAIN resp'.detail.args
       IN  serving =>
             /\ resp'.op = "invite_member" =>
                   /\ denied <=> (~limit.inf /\ members + 1 >= limit.n)
                   /\ denied => (stated /\ users' = users)
             /\ (/\ resp'.op = "approve_member"
                 /\ resp'.target \in DOMAIN users
                 /\ users[resp'.target].org_id = org
                 /\ users[resp'.target].membership_status = "pending") =>
                   /\ denied <=> (~limit.inf /\ active + 1 >= limit.n)
                   /\ denied => (stated /\ users' = users)
             /\ resp'.op = "bulk_approve_members" =>
                   /\ denied <=> (~limit.inf /\ active + N >= limit.n)
                   /\ denied => (stated /\ users' = users)
      ]_vars

\* C11: get_plan_features returns a bundle and never raises for every plan
\* name: the canonical names in any letter case, unknown strings, the empty
\* string and None; every input that is not a canonical name gives exactly
\* the free bundle.
PlanFeaturesTotalAsStated ==
    [][resp'.op = "get_plan_features" =>
         \A v \in resp'.rows :
            /\ ~IsRaised(v)
            /\ Lower(resp'.target.plan_name) \notin PlanValues => v = TIER_FEATURES["free"]
      ]_vars

\* C12: the former plan names starter, growth and enterprise resolve to the
\* bundles of individual, ministry and church, and resolve_limit of starter
\* and users is 50.
LegacyPlanNamesAsStated ==
    [][/\ resp'.op = "get_plan_features" =>
            /\ resp'.target.plan_name = "starter" => resp'.rows = {TIER_FEATURES["individual"]}
            /\ resp'.target.plan_name = "growth" => resp'.rows = {TIER_FEATURES["ministry"]}
            /\ resp'.target.plan_name = "enterprise" => resp'.rows = {TIER_FEATURES["church"]}
       /\ (/\ resp'.op = "resolve_limit"
           /\ resp'.target = [plan_name |-> "starter", feature |-> "users"]) =>
            resp'.rows = {Finite(50)}
      ]_vars

\* C13: an operation gated by a boolean entitlement is denied with 403 when
\* the bundle of the caller's organization lacks the feature; in particular
\* bulk_approve_members for an organization on the free plan is rejected
\* with 403 before any member is looked up or changed.
BulkActionsGatedAsStated ==
    [][(/\ resp'.op = "bulk_approve_members"
        /\ users[resp'.caller].org_id # NoOrg
        /\ get_plan_features(orgs[users[resp'.caller].org_id].plan) = TIER_FEATURES["free"]) =>
            /\ resp'.status = 403
            /\ users' = users
      ]_vars

\* C14: entitlement checks fail closed: a caller without an organization,
\* or whose organization's plan name is not recognised, is never allowed
\* what a member of a free-plan organization is denied; a theme outside
\* the free theme list is refused with 403 and nothing is stored.
FailClosedAsStated ==
    [][(/\ resp'.op = "update_user_preferences"
        /\ resp'.target.theme \notin {NoValue, ""} \cup THEMES_FREE.ids
        /\ \/ users[resp'.caller].org_id = NoOrg
           \/ Lower(orgs[users[resp'.caller].org_id].plan) \notin PlanValues) =>
            /\ resp'.status = 403
            /\ users' = users
      ]_vars

UnauthenticatedRequestRefused ==
    [][resp'.op \in {"get_current_user_request", "update_user_preferences_request"} =>
         LET cr == resp'.target.credentials
             ck == resp'.target.cookie
             token == IF cr.state # "absent" THEN cr ELSE ck
             unauthenticated ==
                 \/ token.state # "valid"
                 \/ token.sub = NoValue
                 \/ token.sub \notin {IdTexts[u] : u \in DOMAIN users}
         IN  unauthenticated =>
               /\ resp'.status = 401
               /\ resp'.rows = {}
               /\ resp'.commits = 0
               /\ users' = users /\ orgs' = orgs
               /\ auditLogs' = auditLogs /\ logEntries' = logEntries
      ]_vars

\* C15 witness: a write request with an expired token of a member of the
\* demo organization was answered 401, not the demo organization's 403
ExpiredTokenOfDemoMemberRefused ==
    /\ resp.op = "update_user_preferences_request"
    /\ resp.target.credentials.state = "expired"
    /\ resp.target.credentials.sub = IdTexts["j1"]
    /\ users["j1"].org_id = "o2"
    /\ resp.status = 401

\* C16: the 401 for a valid token whose subject names no existing user has
\* the same status and detail as the 401 for an invalid or expired token.
UnknownUserIndistinguishableAsStated ==
    [][(/\ resp'.op = "get_current_user_request"
        /\ resp'.target.credentials.state = "valid"
        /\ resp'.target.credentials.sub = IdTexts[MissingUser]) =>
            /\ resp'.status = 401
            /\ resp'.detail.text = "Could not validate credentials"
      ]_vars

\* C17: the Context of a request is determined by the token's subject and
\* the stored user and organization at that moment: its role is the stored
\* role, never the token's role claim, its permissions are empty, and
\* resolving it changes nothing, so a second request with no write between
\* gets the same Context and a request after a stored change gets the new
\* values.
ContextFromStoredUser ==
    [][(resp'.op = "get_current_user_request" /\ resp'.status = 200) =>
         LET cr == resp'.target.credentials
             ck == resp'.target.cookie
             token == IF cr.state # "absent" THEN cr ELSE ck
             uid == CHOOSE u \in DOMAIN users : IdTexts[u] = token.sub
         IN  /\ resp'.rows = {[user |-> uid, organization |-> users[uid].org_id,
                               role |-> users[uid].role, permissions |-> <<>>]}
             /\ users' = users /\ orgs' = orgs
             /\ auditLogs' = auditLogs /\ logEntries' = logEntries
      ]_vars

\* C17 witness: j1, made admin of another organization since the token was
\* issued with the role claim user, is resolved with the stored role
StoredRoleOverridesClaim ==
    /\ resp.op = "get_current_user_request"
    /\ resp.status = 200
    /\ resp.target.credentials = Token("valid", IdTexts["j1"], "user")
    /\ resp.rows = {[user |-> "j1", organization |-> "o3", role |-> "admin",
                     permissions |-> <<>>]}

\* C19: AuditService.log_action never raises to its caller: a details
\* payload holding a value that cannot be serialised is coerced or replaced
\* by an empty object, and any failure inside the emitter is swallowed.
LogActionNeverRaisesAsStated ==
    [][resp'.op = "log_action" =>
         /\ resp'.status = 200
         /\ \A v \in resp'.rows : ~IsRaised(v)
      ]_vars

SystemAdminNarrowerThanOrgAdmin ==
    [][resp'.op = "admin_guards" =>
         LET u == users[resp'.caller]
             ordinary_admin ==
                 /\ u.role = "admin"
                 /\ u.org_id # NoOrg
                 /\ u.email # OperatorEmail
                 /\ orgs[u.org_id].slug # LegacySlug
                 /\ ~(orgs[u.org_id].is_demo /\ resp'.method \notin {"GET", "HEAD", "OPTIONS"})
         IN  \A g \in resp'.rows :
                /\ g.system_admin => g.org_admin
                /\ ordinary_admin => (g.org_admin /\ ~g.system_admin)
      ]_vars

\* C21 witness: an admin of an ordinary organization passed the org-admin
\* guard and was refused by the system-admin guard
OrgAdminIsNoSystemAdmin ==
    /\ resp.op = "admin_guards"
    /\ users[resp.caller].role = "admin"
    /\ users[resp.caller].org_id = "o3"
    /\ users[resp.caller].email # OperatorEmail
    /\ resp.rows = {[system_admin |-> FALSE, org_admin |-> TRUE]}

\* C22 as stated: an event id is marked only by a delivery whose handler
\* returned without error; a delivery of a marked id answers
\* 'already_processed', runs no handler and marks nothing; a delivery whose
\* handler raises answers 500 and leaves the id unmarked.
WebhookIdempotentAsStated ==
    [][resp'.op = "stripe_webhook" /\ resp'.target.sig_header = "good" =>
         LET key == EventKey(resp'.target.event.id)
         IN  /\ (key \notin redis /\ key \in redis') =>
                   (resp'.status = 200 /\ resp'.detail.text = "success"
                    /\ \A h \in resp'.rows : ~h.raised)
             /\ key \in redis =>
                   (resp'.detail.text = "already_processed" /\ resp'.rows = {}
                    /\ redis' = redis /\ orgs' = orgs)
             /\ (\E h \in resp'.rows : h.raised) =>
                   (resp'.status = 500 /\ key \notin redis')
      ]_vars

\* C22 amended: an event id is marked only by a delivery whose handler
\* returned without error; a delivery that finds the event store reachable
\* and the id marked answers 'already_processed', runs no handler and marks
\* nothing; a delivery whose handler raises answers 500 and marks nothing,
\* and if it found the store reachable the id is unmarked afterwards.
WebhookIdempotentWhileStoreReachable ==
    [][resp'.op = "stripe_webhook" /\ resp'.target.sig_header = "good" =>
         LET key == EventKey(resp'.target.event.id)
         IN  /\ (key \notin redis /\ key \in redis') =>
                   (resp'.status = 200 /\ resp'.detail.text = "success"
                    /\ \A h \in resp'.rows : ~h.raised)
             /\ (key \in redis /\ resp'.target.up_check) =>
                   (resp'.detail.text = "already_processed" /\ resp'.rows = {}
                    /\ redis' = redis /\ orgs' = orgs)
             /\ (\E h \in resp'.rows : h.raised) =>
                   (resp'.status = 500 /\ redis' = redis
                    /\ (resp'.target.up_check => key \notin redis'))
      ]_vars

\* C22 witness: a delivery of a marked id was answered 'already_processed'
\* with the store reachable
DuplicateDeliverySkipped ==
    /\ resp.op = "stripe_webhook"
    /\ resp.target.up_check
    /\ resp.detail.text = "already_processed"
    /\ EventKey(resp.target.event.id) \in redis

\* C23 as stated: a user without the operator's address, whose role and
\* organization no system admin has set, does not pass get_current_admin and
\* is not served rows of other organizations by /admin/logs or /admin/users,
\* whatever logins, create_organization and join_organization requests came
\* before.
NoSelfServiceEscalationAsStated ==
    [][(/\ resp'.op \in {"admin_guards", "get_system_logs", "list_all_users"}
        /\ users[resp'.caller].email # OperatorEmail
        /\ resp'.caller # "a1") =>
         /\ resp'.op = "admin_guards" => \A g \in resp'.rows : ~g.system_admin
         /\ (resp'.op = "get_system_logs" /\ resp'.status = 200) =>
               \A r \in resp'.rows : r.org_id = users[resp'.caller].org_id
         /\ (resp'.op = "list_all_users" /\ resp'.status = 200) =>
               \A u \in resp'.rows : users[u].org_id = users[resp'.caller].org_id
      ]_vars

\* C24: join, approve, bulk approve, reject and bulk reject requests, run one
\* at a time on an organization whose plan does not change, never take the
\* number of active members from within the plan's user limit to above it.
ActiveMembersWithinLimit ==
    [][\A o \in DOMAIN orgs :
         LET active(us) == Cardinality({u \in DOMAIN us : /\ us[u].org_id = o
                                                         /\ us[u].membership_status = "active"})
             limit == get_plan_features(orgs[o].plan).users
         IN  (o \in DOMAIN orgs' /\ orgs'[o].plan = orgs[o].plan
              /\ ~Exceeds(active(users), limit)) => ~Exceeds(active(users'), limit)
      ]_vars

\* C24 witness: an approval filled the last seat of the organization
LastSeatFilledByApproval ==
    /\ resp.op \in {"approve_member", "bulk_approve_members"}
    /\ resp.status = 200
    /\ resp.commits > 0
    /\ Cardinality({u \in DOMAIN users : /\ users[u].org_id = "o3"
                                         /\ users[u].membership_status = "active"})
          = get_plan_features(orgs["o3"].plan).users.n

\* C25 as stated: of two concurrent approvals for different pending users of
\* an organization with one open seat at most one activates its target: the
\* active members stay within the plan's user limit under every interleaving
\* of the count queries and the commits.
ConcurrentApprovalsWithinLimitAsStated ==
    \A o \in DOMAIN orgs :
        ~Exceeds(Cardinality({u \in DOMAIN users : /\ users[u].org_id = o
                                                    /\ users[u].membership_status = "active"}),
                 get_plan_features(orgs[o].plan).users)

\* C26 as stated: while the event store is reachable no Stripe event id has
\* its handler run to completion in two deliveries, also when two workers
\* serve the same event at the same time.
HandlerAppliedOnceAsStated ==
    \A w1, w2 \in Workers :
        (/\ w1 # w2
         /\ inflight[w1].op = "stripe_webhook"
         /\ inflight[w2].op = "stripe_webhook"
         /\ inflight[w1].ran
         /\ inflight[w2].ran) => inflight[w1].target.id # inflight[w2].target.id

\* C27 as stated: once a checkout.session.completed or
\* customer.subscription.updated delivery has set the plan of an organization,
\* get_plan_features of that plan is a paid bundle, with a user limit above
\* the free limit of 10; once a customer.subscription.deleted delivery has set
\* it, get_plan_features is the free bundle.
PurchasedPlanResolvedAsStated ==
    [][resp'.op = "stripe_webhook" =>
         \A o \in DOMAIN orgs :
            orgs'[o].plan # orgs[o].plan =>
               LET features == get_plan_features(orgs'[o].plan)
               IN  /\ resp'.target.event.type \in {"checkout.session.completed",
                                                   "customer.subscription.updated"} =>
                         (/\ ~Exceeds(TIER_FEATURES["free"].users.n + 1, features.users)
                          /\ features # TIER_FEATURES["free"])
                   /\ resp'.target.event.type = "customer.subscription.deleted" =>
                         features = TIER_FEATURES["free"]
      ]_vars

\* C28 as stated: the account with the operator's address passes
\* get_current_admin after any sequence of logins and startups.
OperatorKeepsSystemAccessAsStated ==
    [][(/\ resp'.op = "admin_guards"
        /\ resp'.method = "GET"
        /\ users[resp'.caller].email = OperatorEmail) =>
         \A g \in resp'.rows : g.system_admin
      ]_vars

\* C30: in development create_all is called at most max_retries times in a
\* startup; a further call follows only an error whose lower-cased message
\* holds one of the keywords; the first success ends the loop, any other error
\* and the fifth connection error in a row end the startup; and the loop always
\* ends.
StartupRetryLoopTerminates ==
    /\ [](boot.calls <= 5)
    /\ [][(boot.state = "connecting" /\ boot' # boot) =>
            LET e == boot'.error
                connection == e \in {NameResolutionError, DnsFailure, ConnectionRefused,
                                     NetworkUnreachable}
            IN  /\ boot'.calls = boot.calls + 1
                /\ boot'.state = "connecting" => (connection /\ boot'.calls < 5)
                /\ e = <<>> => boot'.state = "healing"
                /\ (e # <<>> /\ ~connection) => boot'.state = "failed"
                /\ (connection /\ boot'.calls = 5) => boot'.state = "failed"
         ]_vars
    /\ (boot.state = "connecting") ~> (boot.state # "connecting")

\* C30 witness: the startup gave up after the fifth connection error
FifthConnectionFailureRaised ==
    /\ boot.state = "failed"
    /\ boot.calls = 5
    /\ boot.error = DnsFailure

\* C29 as stated: an organization created through create_organization has,
\* after any sequence of create, join, approve, reject, bulk reject and member
\* role update requests, at least one member with role admin and status
\* active.
CreatedOrgKeepsAdminAsStated ==
    "o4" \in DOMAIN orgs =>
        \E u \in DOMAIN users : /\ users[u].org_id = "o4"
                                /\ users[u].role = "admin"
                                /\ users[u].membership_status = "active"

====
